---- MODULE Spec2Model ----
(***************************************************************************)
(* Model of the role reconciliation engine of saes-discord-bot:            *)
(*   bot/core/role_mapper.py   RoleMapper (mapping index)                  *)
(*   bot/core/sync_engine.py   SyncEngine.sync_user_roles and its helpers  *)
(*   bot/cogs/role_monitor.py  RoleMonitorCog (debounce queue and drain)   *)
(*                                                                         *)
(* Role lists are modelled as sets: the code builds them with list(set())  *)
(* and set differences, so they carry no duplicates and no fixed order.    *)
(* One subject is reconciled by the engine; the debounce queue holds       *)
(* several subjects.                                                       *)
(***************************************************************************)
EXTENDS Integers, Sequences, FiniteSets, TLC

(***************************************************************************)
(* Identifiers of the modelled world.                                      *)
(***************************************************************************)
MainServer == 10
GuildA == 1
GuildB == 2
SourceGuilds == {GuildA, GuildB}

R1 == 101
R2 == 102
T1 == 11
T2 == 12
T9 == 19

\* role that a source guild can give to the subject
GuildRole(g) == IF g = GuildA THEN R1 ELSE R2

\* roles of the target community that the subject may hold
MainRoles == {T1, T2, T9}

\* Python None where a role id is expected (None and 0 are both falsy)
NoRole == 0
NoValue == "None"

\* what guild.fetch_member finds for the subject on a source guild
NotMember == [member |-> FALSE, roles |-> {}]
MemberWith(roles) == [member |-> TRUE, roles |-> roles]

\* the rows a mappings file can hold: id, source pair, target role
MappingCatalog ==
  { [id |-> 1, source_server_id |-> GuildA, source_role_id |-> R1, target_role_id |-> T1],
    [id |-> 2, source_server_id |-> GuildB, source_role_id |-> R2, target_role_id |-> T2],
    [id |-> 3, source_server_id |-> GuildB, source_role_id |-> R2, target_role_id |-> T1] }

MappingIds == {m.id : m \in MappingCatalog}

CatalogEntry(mapping_id) == CHOOSE m \in MappingCatalog : m.id = mapping_id

\* RoleMapping dataclass (target_server_id and description play no part)
RoleMapping(mapping_id, enabled) ==
  [id |-> mapping_id,
   source_server_id |-> CatalogEntry(mapping_id).source_server_id,
   source_role_id |-> CatalogEntry(mapping_id).source_role_id,
   target_role_id |-> CatalogEntry(mapping_id).target_role_id,
   enabled |-> enabled]

VARIABLES
  source_state,     \* guild -> NotMember or MemberWith(the subject's roles)
  main_roles,       \* the subject's roles on the target community
  mappings_file,    \* rows of config/role_mappings.json
  role_mappings,    \* Config._role_mappings, the mapping list in memory
  db_mappings,      \* rows of the role_mapping_cache table
  mapping_cache,    \* RoleMapper._mapping_cache
  admin_result,     \* outcome of the last administrative mapping call
  admin_calls,      \* administrative mapping calls and file edits so far
  reload_pc,        \* reload_mappings call -> its position
  reload_list,      \* reload_mappings call -> its local list mappings
  reload_k,         \* reload_mappings call -> rows it has cached so far
  loaded_lists,     \* mapping lists that Config has loaded from the file
  pc,               \* position of the sync_user_roles call
  result,           \* the SyncResult under construction
  loc,              \* local variables of sync_user_roles
  api_calls,        \* role mutations issued on the target community
  db_log,           \* audit rows written by this call
  prev_success,     \* "True"/"False": success of the directly preceding call
  now,              \* wall clock, seconds
  pending_syncs,    \* RoleMonitorCog.pending_syncs
  task_running,     \* process_pending_syncs loop is started
  drain_pc,         \* position inside one run of process_pending_syncs
  users_to_sync,    \* local list of the drain run
  last_change,      \* user -> times of the first and the last qualifying change
                    \* of the current burst, -1 if none
  dispatched,       \* user -> scan times that removed the user, this burst
  scan_count,       \* user -> removals from the queue by the drain so far
  call_count,       \* user -> sync_user_roles(trigger auto) calls so far
  auto_sync_enabled, \* value of sync.auto_sync_enabled in the configuration
  last_event,       \* the last on_member_update event observed, NoEvent if none
  dispatch_log,     \* <<user, outcome>> of the dispatches of the latest drain run
  cancel_requested, \* process_pending_syncs.cancel() called, CancelledError not
                    \* yet thrown into the task
  running_syncs,    \* user -> sync_user_roles(trigger auto) calls now executing
  interrupted,      \* users whose executing call was ended by CancelledError
  cog_loaded,       \* RoleMonitorCog is loaded
  last_toggle,      \* the last toggle_autosync command and the task state it found
  sweep,            \* the sync_all_users call: position, locals, returned stats
  cog_cache         \* cog -> _mapping_cache of the RoleMapper that cog built

reload_vars == <<reload_pc, reload_list, reload_k, loaded_lists>>
mapper_vars == <<mappings_file, role_mappings, db_mappings, mapping_cache,
                 admin_result, admin_calls, reload_pc, reload_list, reload_k,
                 loaded_lists>>
sync_vars == <<pc, result, loc, api_calls, db_log, prev_success, sweep>>
env_vars == <<source_state, main_roles>>
monitor_vars == <<now, pending_syncs, task_running, drain_pc, users_to_sync,
                  last_change, dispatched, scan_count, call_count,
                  auto_sync_enabled, last_event, dispatch_log,
                  cancel_requested, running_syncs, interrupted, cog_loaded,
                  last_toggle, cog_cache>>
task_vars == <<cancel_requested, running_syncs, interrupted, cog_loaded, last_toggle>>
vars == <<source_state, main_roles, mappings_file, role_mappings, db_mappings,
          mapping_cache, admin_result, admin_calls, reload_pc, reload_list,
          reload_k, loaded_lists, pc, result, loc, api_calls, db_log, prev_success,
          now, pending_syncs, task_running, drain_pc, users_to_sync,
          last_change, dispatched, scan_count, call_count,
          auto_sync_enabled, last_event, dispatch_log,
          cancel_requested, running_syncs, interrupted, cog_loaded, last_toggle,
          sweep, cog_cache>>

(***************************************************************************)
(* Small helpers on finite maps and sets.                                  *)
(***************************************************************************)
EmptyMap == [x \in {} |-> 0]

Put(f, k, v) == [x \in (DOMAIN f) \cup {k} |-> IF x = k THEN v ELSE f[x]]

Pop(f, k) == [x \in (DOMAIN f) \ {k} |-> f[x]]

RECURSIVE SortedSeq(_)
SortedSeq(S) ==
  IF S = {} THEN <<>>
  ELSE LET x == CHOOSE y \in S : \A z \in S : y <= z
       IN <<x>> \o SortedSeq(S \ {x})

Range(s) == {s[i] : i \in DOMAIN s}

(***************************************************************************)
(* RoleMapper: the mapping index.                                          *)
(***************************************************************************)

\* DatabaseOperations.get_all_mappings: SELECT * ... ORDER BY mapping_id
get_all_mappings(table) ==
  LET ids == SortedSeq({row.id : row \in table})
  IN [i \in 1..Len(ids) |-> CHOOSE row \in table : row.id = ids[i]]

\* DatabaseOperations.cache_role_mapping: INSERT ... ON CONFLICT(mapping_id) DO UPDATE
cache_role_mapping(table, mapping) ==
  {row \in table : row.id # mapping.id} \cup {mapping}

\* the loop of RoleMapper.load_mappings over the rows read from the table
RECURSIVE LoadRows(_, _)
LoadRows(cache, rows) ==
  IF rows = <<>> THEN cache
  ELSE LET mapping == Head(rows)
           key == <<mapping.source_server_id, mapping.source_role_id>>
       IN LoadRows(IF mapping.enabled THEN Put(cache, key, mapping.target_role_id)
                                      ELSE cache,
                   Tail(rows))

\* RoleMapper.load_mappings: clear the cache, then load the enabled rows
load_mappings(table) == LoadRows(EmptyMap, get_all_mappings(table))

\* RoleMapper.get_target_role: dict.get, None when the key is absent
get_target_role(cache, source_server_id, source_role_id) ==
  LET key == <<source_server_id, source_role_id>>
  IN IF key \in DOMAIN cache THEN cache[key] ELSE NoRole

\* RoleMapper.get_all_target_roles
get_all_target_roles(cache, source_roles) ==
  {get_target_role(cache, p[1], p[2]) :
     p \in {q \in source_roles : get_target_role(cache, q[1], q[2]) # NoRole}}

\* RoleMapper.has_mapping
has_mapping(cache, source_server_id, source_role_id) ==
  <<source_server_id, source_role_id>> \in DOMAIN cache

\* The call self.role_mapper.is_target_role(role_id) of calculate_role_changes.
\* RoleMapper defines no attribute of that name, so the attribute lookup
\* raises AttributeError before any answer is produced.
is_target_role_answers_true(cache, role_id) == "True"

is_target_role(cache, role_id) == "AttributeError"

\* Config.get_mapping_by_id: index of the mapping in the list, 0 when absent
get_mapping_by_id(mappings, mapping_id) ==
  IF \E i \in DOMAIN mappings : mappings[i].id = mapping_id
  THEN CHOOSE i \in DOMAIN mappings :
         /\ mappings[i].id = mapping_id
         /\ \A j \in DOMAIN mappings : mappings[j].id = mapping_id => i <= j
  ELSE 0

\* main.py _cache_role_mappings: the table holds the enabled mappings at start
StartupTable(mappings) == {m \in Range(mappings) : m.enabled}

\* the cogs that build a RoleMapper of their own in cog_load, besides
\* AdminCommandsCog whose RoleMapper the administrative commands call
ConsumerCogs == {"RoleMonitorCog", "SyncButtonCog"}

\* cog_load of every cog at start: RoleMapper(config, db), then initialize()
\* loads that instance's index from the table
cog_load(table) == [cog \in ConsumerCogs |-> load_mappings(table)]

(***************************************************************************)
(* SyncEngine.sync_user_roles, live path (no prefetched cache, no batch    *)
(* buffer).  Every await is the end of a step; the answers of the hosting  *)
(* platform and of the database are inputs of the step.                    *)
(***************************************************************************)
Err(kind, arg) == <<kind, arg>>

Row(action_type, role_id) == <<action_type, role_id>>

NewResult ==
  [success |-> FALSE, roles_added |-> {}, roles_removed |-> {},
   roles_failed |-> {}, errors |-> {}, source_servers |-> {}]

NewLocals ==
  [main_member |-> FALSE,
   fetch_results |-> [g \in SourceGuilds |-> "unset"],
   mutual_guilds |-> {}, user_roles_map |-> EmptyMap, fetch_errors |-> {},
   target_role_ids |-> {}, current_role_ids |-> {}, manageable |-> {},
   roles_to_add |-> {}, roles_to_remove |-> {}, unmanageable_role_ids |-> {},
   actually_added |-> {}, failed_to_add |-> {}, removal_success |-> FALSE]

\* SyncEngine._log_sync_event: the database error is caught and logged
SyncEngine_log_sync_event_unguarded(db_ok) == [raised |-> ~db_ok, written |-> db_ok]

SyncEngine_log_sync_event(db_ok) == [raised |-> FALSE, written |-> db_ok]

\* the "except Exception" handler of sync_user_roles
ExceptHandler(res, db_ok) ==
  LET lg == SyncEngine_log_sync_event(db_ok)
  IN [result |-> [res EXCEPT !.errors = @ \cup {Err("exception", 0)}],
      rows |-> IF lg.written THEN {Row("sync_failed", 0)} ELSE {},
      pc |-> IF lg.raised THEN "raised" ELSE "record_session"]

\* asyncio.gather over _fetch_member_safe: Member, None or an exception
FetchResults_returns_at_first_answer(state, outcomes) ==
  [g \in SourceGuilds |->
     IF g # GuildA THEN "unset"
     ELSE IF outcomes[g] = "error" THEN "Exception"
     ELSE IF state[g].member THEN "Member" ELSE "None"]

FetchResults(state, outcomes) ==
  [g \in SourceGuilds |->
     IF outcomes[g] = "error" THEN "Exception"
     ELSE IF state[g].member THEN "Member" ELSE "None"]

\* the loop of get_user_roles_from_all_guilds over the gathered results
get_user_roles_from_all_guilds_no_errors(state, results) ==
  LET mutual == {g \in SourceGuilds : results[g] = "Member"}
      with_roles == {g \in mutual : state[g].roles # {}}
  IN [mutual_guilds |-> mutual,
      user_roles_map |-> [g \in with_roles |-> state[g].roles],
      fetch_errors |-> {}]

get_user_roles_from_all_guilds(state, results) ==
  LET mutual == {g \in SourceGuilds : results[g] = "Member"}
      with_roles == {g \in mutual : state[g].roles # {}}
  IN [mutual_guilds |-> mutual,
      user_roles_map |-> [g \in with_roles |-> state[g].roles],
      fetch_errors |-> {g \in SourceGuilds : results[g] = "Exception"}]

\* SyncEngine.calculate_target_roles
calculate_target_roles(cache, user_roles_map) ==
  get_all_target_roles(cache,
    UNION {{<<server_id, role_id>> : role_id \in user_roles_map[server_id]} :
             server_id \in DOMAIN user_roles_map})

\* permissions.get_manageable_roles; manageable is what can_manage_role accepts
get_manageable_roles_swapped(manageable, role_ids) ==
  [manageable |-> role_ids \ manageable,
   unmanageable |-> role_ids \cap manageable]

get_manageable_roles(manageable, role_ids) ==
  [manageable |-> role_ids \cap manageable,
   unmanageable |-> role_ids \ manageable]

\* SyncEngine.calculate_role_changes
calculate_role_changes(cache, member_roles, target_role_ids, manageable) ==
  LET current_role_ids == member_roles
      roles_to_add_ids == target_role_ids \ current_role_ids
      roles_to_remove_ids == current_role_ids \ target_role_ids
      add == get_manageable_roles(manageable, roles_to_add_ids)
      raised == \E role_id \in roles_to_remove_ids :
                   is_target_role(cache, role_id) = "AttributeError"
      mapped_role_ids == {role_id \in roles_to_remove_ids :
                            is_target_role(cache, role_id) = "True"}
  IN [raised |-> raised,
      roles_to_add |-> add.manageable,
      roles_to_remove |-> get_manageable_roles(manageable, mapped_role_ids).manageable,
      unmanageable_roles |-> add.unmanageable]

AddCall(roles, ok) == [op |-> "add", roles |-> roles, ok |-> ok]
RemoveCall(roles, ok) == [op |-> "remove", roles |-> roles, ok |-> ok]

\* the add part of apply_role_changes: one bulk call, per-role calls on Forbidden
AddRoles_error_counts_as_added(roles_to_add, bulk, ok_roles) ==
  IF roles_to_add = {} THEN
    [actually_added |-> {}, failed_to_add |-> {}, calls |-> <<>>, applied |-> {}]
  ELSE IF bulk = "ok" THEN
    [actually_added |-> roles_to_add, failed_to_add |-> {},
     calls |-> <<AddCall(roles_to_add, TRUE)>>, applied |-> roles_to_add]
  ELSE IF bulk = "forbidden" THEN
    LET order == SortedSeq(roles_to_add)
    IN [actually_added |-> roles_to_add \cap ok_roles,
        failed_to_add |-> roles_to_add \ ok_roles,
        calls |-> <<AddCall(roles_to_add, FALSE)>> \o
                  [i \in 1..Len(order) |-> AddCall({order[i]}, order[i] \in ok_roles)],
        applied |-> roles_to_add \cap ok_roles]
  ELSE
    [actually_added |-> roles_to_add, failed_to_add |-> {},
     calls |-> <<AddCall(roles_to_add, FALSE)>>, applied |-> {}]

AddRoles_fallback_appends_before_call(roles_to_add, bulk, ok_roles) ==
  IF roles_to_add = {} THEN
    [actually_added |-> {}, failed_to_add |-> {}, calls |-> <<>>, applied |-> {}]
  ELSE IF bulk = "ok" THEN
    [actually_added |-> roles_to_add, failed_to_add |-> {},
     calls |-> <<AddCall(roles_to_add, TRUE)>>, applied |-> roles_to_add]
  ELSE IF bulk = "forbidden" THEN
    LET order == SortedSeq(roles_to_add)
    IN [actually_added |-> roles_to_add,
        failed_to_add |-> roles_to_add \ ok_roles,
        calls |-> <<AddCall(roles_to_add, FALSE)>> \o
                  [i \in 1..Len(order) |-> AddCall({order[i]}, order[i] \in ok_roles)],
        applied |-> roles_to_add \cap ok_roles]
  ELSE
    [actually_added |-> {}, failed_to_add |-> roles_to_add,
     calls |-> <<AddCall(roles_to_add, FALSE)>>, applied |-> {}]

AddRoles_fallback_stops_at_first_failure(roles_to_add, bulk, ok_roles) ==
  IF roles_to_add = {} THEN
    [actually_added |-> {}, failed_to_add |-> {}, calls |-> <<>>, applied |-> {}]
  ELSE IF bulk = "ok" THEN
    [actually_added |-> roles_to_add, failed_to_add |-> {},
     calls |-> <<AddCall(roles_to_add, TRUE)>>, applied |-> roles_to_add]
  ELSE IF bulk = "forbidden" THEN
    LET order == SortedSeq(roles_to_add)
        tried == {i \in DOMAIN order : \A j \in 1..(i - 1) : order[j] \in ok_roles}
        tried_roles == {order[i] : i \in tried}
    IN [actually_added |-> tried_roles \cap ok_roles,
        failed_to_add |-> tried_roles \ ok_roles,
        calls |-> <<AddCall(roles_to_add, FALSE)>> \o
                  [i \in 1..Cardinality(tried) |->
                     AddCall({order[i]}, order[i] \in ok_roles)],
        applied |-> tried_roles \cap ok_roles]
  ELSE
    [actually_added |-> {}, failed_to_add |-> roles_to_add,
     calls |-> <<AddCall(roles_to_add, FALSE)>>, applied |-> {}]

AddRoles(roles_to_add, bulk, ok_roles) ==
  IF roles_to_add = {} THEN
    [actually_added |-> {}, failed_to_add |-> {}, calls |-> <<>>, applied |-> {}]
  ELSE IF bulk = "ok" THEN
    [actually_added |-> roles_to_add, failed_to_add |-> {},
     calls |-> <<AddCall(roles_to_add, TRUE)>>, applied |-> roles_to_add]
  ELSE IF bulk = "forbidden" THEN
    LET order == SortedSeq(roles_to_add)
    IN [actually_added |-> roles_to_add \cap ok_roles,
        failed_to_add |-> roles_to_add \ ok_roles,
        calls |-> <<AddCall(roles_to_add, FALSE)>> \o
                  [i \in 1..Len(order) |-> AddCall({order[i]}, order[i] \in ok_roles)],
        applied |-> roles_to_add \cap ok_roles]
  ELSE
    [actually_added |-> {}, failed_to_add |-> roles_to_add,
     calls |-> <<AddCall(roles_to_add, FALSE)>>, applied |-> {}]

\* lines 194-203 of sync_user_roles: fill the result after apply_role_changes
CollectResult_ignoring_fetch_errors(res, locals) ==
  LET all_failed == locals.failed_to_add \cup locals.unmanageable_role_ids
  IN [res EXCEPT !.roles_added = locals.actually_added,
                 !.roles_removed = locals.roles_to_remove,
                 !.roles_failed = all_failed,
                 !.success = (all_failed = {})]

CollectResult(res, locals) ==
  LET all_failed == locals.failed_to_add \cup locals.unmanageable_role_ids
      has_failures == all_failed # {} \/ locals.fetch_errors # {}
  IN [res EXCEPT !.roles_added = locals.actually_added,
                 !.roles_removed = locals.roles_to_remove,
                 !.roles_failed = all_failed,
                 !.success = ~has_failures]

\* DatabaseOperations has no record_sync_session: the call raises
\* AttributeError, which the try/except around it catches
record_sync_session(db_ok) == "AttributeError"

\* lines 99-122: build the result, look the target community up
StartSync(found, db_ok) ==
  /\ pc \in {"idle", "done"}
  /\ prev_success' = IF pc = "done"
                     THEN (IF result.success THEN "True" ELSE "False")
                     ELSE NoValue
  /\ loc' = NewLocals
  /\ api_calls' = <<>>
  /\ IF found
     THEN /\ result' = NewResult
          /\ db_log' = {}
          /\ pc' = "fetch_target"
     ELSE LET lg == SyncEngine_log_sync_event(db_ok)
          IN /\ result' = [NewResult EXCEPT !.errors = {Err("main_not_found", 0)}]
             /\ db_log' = IF lg.written THEN {Row("sync_failed", 0)} ELSE {}
             /\ pc' = IF lg.raised THEN "raised" ELSE "done"
  /\ UNCHANGED <<env_vars, mapper_vars, monitor_vars, sweep>>

\* lines 124-135: main_guild.fetch_member(user_id)
FetchTarget(outcome, db_ok) ==
  /\ pc = "fetch_target"
  /\ IF outcome = "ok"
     THEN /\ loc' = [loc EXCEPT !.main_member = TRUE, !.current_role_ids = main_roles]
          /\ pc' = "fetch_sources"
          /\ UNCHANGED <<result, db_log>>
     ELSE IF outcome = "not_found"
     THEN LET lg == SyncEngine_log_sync_event(db_ok)
          IN /\ result' = [result EXCEPT !.errors = @ \cup {Err("user_not_found", 0)}]
             /\ db_log' = IF lg.written THEN db_log \cup {Row("sync_failed", 0)} ELSE db_log
             /\ pc' = IF lg.raised THEN "raised" ELSE "record_session"
             /\ UNCHANGED loc
     ELSE LET h == ExceptHandler(result, db_ok)
          IN /\ result' = h.result
             /\ db_log' = db_log \cup h.rows
             /\ pc' = h.pc
             /\ UNCHANGED loc
  /\ UNCHANGED <<env_vars, mapper_vars, monitor_vars, sweep, api_calls, prev_success>>

\* lines 137-168: gather the source roles, early returns
FetchSources(outcomes, db_ok) ==
  /\ pc = "fetch_sources"
  /\ LET results == FetchResults(source_state, outcomes)
         got == get_user_roles_from_all_guilds(source_state, results)
         lg == SyncEngine_log_sync_event(db_ok)
         errs == result.errors \cup {Err("fetch", g) : g \in got.fetch_errors}
     IN /\ loc' = [loc EXCEPT !.fetch_results = results,
                              !.mutual_guilds = got.mutual_guilds,
                              !.user_roles_map = got.user_roles_map,
                              !.fetch_errors = got.fetch_errors]
        /\ IF got.mutual_guilds = {} /\ got.fetch_errors = {}
           THEN /\ result' = [result EXCEPT !.errors = errs, !.success = TRUE]
                /\ db_log' = IF lg.written THEN db_log \cup {Row("sync_success", 0)} ELSE db_log
                /\ pc' = IF lg.raised THEN "raised" ELSE "done"
           ELSE IF got.mutual_guilds = {} /\ got.fetch_errors # {}
           THEN /\ result' = [result EXCEPT !.errors = errs, !.success = FALSE]
                /\ db_log' = IF lg.written THEN db_log \cup {Row("sync_failed", 0)} ELSE db_log
                /\ pc' = IF lg.raised THEN "raised" ELSE "done"
           ELSE /\ result' = [result EXCEPT !.errors = errs,
                                            !.source_servers = DOMAIN got.user_roles_map]
                /\ db_log' = db_log
                /\ pc' = "diff"
  /\ UNCHANGED <<env_vars, mapper_vars, monitor_vars, sweep, api_calls, prev_success>>

\* lines 170-182: calculate_target_roles and calculate_role_changes
Diff(manageable, db_ok) ==
  /\ pc = "diff"
  /\ LET target_role_ids == calculate_target_roles(mapping_cache, loc.user_roles_map)
         changes == calculate_role_changes(mapping_cache, loc.current_role_ids,
                                           target_role_ids, manageable)
         h == ExceptHandler(result, db_ok)
     IN IF changes.raised
        THEN /\ loc' = [loc EXCEPT !.target_role_ids = target_role_ids,
                                   !.manageable = manageable]
             /\ result' = h.result
             /\ db_log' = db_log \cup h.rows
             /\ pc' = h.pc
        ELSE /\ loc' = [loc EXCEPT !.target_role_ids = target_role_ids,
                                   !.manageable = manageable,
                                   !.roles_to_add = changes.roles_to_add,
                                   !.roles_to_remove = changes.roles_to_remove,
                                   !.unmanageable_role_ids = changes.unmanageable_roles]
             /\ pc' = "apply_add"
             /\ UNCHANGED <<result, db_log>>
  /\ UNCHANGED <<env_vars, mapper_vars, monitor_vars, sweep, api_calls, prev_success>>

\* apply_role_changes lines 513-585: every add call is made before the first
\* audit row of the call is written, so the outcome of the add calls does not
\* depend on the database
AddBeforeAudit_write_first(roles_to_add, bulk, ok_roles, db_ok) ==
  IF db_ok THEN AddRoles(roles_to_add, bulk, ok_roles)
  ELSE [actually_added |-> {}, failed_to_add |-> {}, calls |-> <<>>, applied |-> {}]

AddBeforeAudit(roles_to_add, bulk, ok_roles, db_ok) ==
  AddRoles(roles_to_add, bulk, ok_roles)

\* apply_role_changes lines 509-585: add calls, then their audit rows
ApplyAdd(bulk, ok_roles, db_ok) ==
  /\ pc = "apply_add"
  /\ ok_roles \subseteq loc.roles_to_add
  /\ LET a == AddBeforeAudit(loc.roles_to_add, bulk, ok_roles, db_ok)
         rows == {Row("role_added", r) : r \in a.actually_added} \cup
                 {Row("role_add_failed", r) : r \in a.failed_to_add}
         h == ExceptHandler(result, db_ok)
     IN /\ api_calls' = api_calls \o a.calls
        /\ main_roles' = main_roles \cup a.applied
        /\ loc' = [loc EXCEPT !.actually_added = a.actually_added,
                              !.failed_to_add = a.failed_to_add]
        /\ IF rows # {} /\ ~db_ok
           THEN /\ result' = h.result
                /\ db_log' = db_log \cup h.rows
                /\ pc' = h.pc
           ELSE /\ db_log' = db_log \cup rows
                /\ pc' = "apply_remove"
                /\ UNCHANGED result
  /\ UNCHANGED <<source_state, mapper_vars, monitor_vars, sweep, prev_success>>

\* apply_role_changes lines 587-615 and sync_user_roles lines 194-203
ApplyRemove(outcome, db_ok) ==
  /\ pc = "apply_remove"
  /\ LET removing == loc.roles_to_remove # {}
         removal_success == removing /\ outcome = "ok"
         rows == {Row(IF removal_success THEN "role_removed" ELSE "role_remove_failed", r) :
                    r \in loc.roles_to_remove}
         locals == [loc EXCEPT !.removal_success = removal_success]
         h == ExceptHandler(result, db_ok)
     IN /\ api_calls' = IF removing
                        THEN Append(api_calls, RemoveCall(loc.roles_to_remove, removal_success))
                        ELSE api_calls
        /\ main_roles' = IF removal_success THEN main_roles \ loc.roles_to_remove
                                            ELSE main_roles
        /\ loc' = locals
        /\ IF rows # {} /\ ~db_ok
           THEN /\ result' = h.result
                /\ db_log' = db_log \cup h.rows
                /\ pc' = h.pc
           ELSE /\ result' = CollectResult(result, locals)
                /\ db_log' = db_log \cup rows
                /\ pc' = "record"
  /\ UNCHANGED <<source_state, mapper_vars, monitor_vars, sweep, prev_success>>

\* lines 205-231: sync event, sync state and statistics rows
Record(fail) ==
  /\ pc = "record"
  /\ LET lg == SyncEngine_log_sync_event(fail # "log")
         status_type == IF result.success THEN "sync_success" ELSE "sync_failed"
         logged == IF lg.written THEN db_log \cup {Row(status_type, 0)} ELSE db_log
         h == ExceptHandler(result, fail # "log")
     IN IF lg.raised
        THEN /\ result' = h.result
             /\ db_log' = db_log
             /\ pc' = "raised"
        ELSE IF result.success /\ fail = "state"
        THEN /\ result' = h.result
             /\ db_log' = logged \cup h.rows
             /\ pc' = h.pc
        ELSE IF fail = "stats"
        THEN /\ result' = h.result
             /\ db_log' = logged \cup h.rows
                          \cup (IF result.success THEN {Row("update_sync_state", 0)} ELSE {})
             /\ pc' = h.pc
        ELSE /\ db_log' = logged \cup {Row("update_statistics", 0)}
                          \cup (IF result.success THEN {Row("update_sync_state", 0)} ELSE {})
             /\ pc' = "record_session"
             /\ UNCHANGED result
  /\ UNCHANGED <<env_vars, mapper_vars, monitor_vars, sweep, loc, api_calls, prev_success>>

\* lines 241-265: session record, return result
RecordSession(db_ok) ==
  /\ pc = "record_session"
  /\ db_log' = IF record_sync_session(db_ok) = "ok"
               THEN db_log \cup {Row("record_sync_session", 0)}
               ELSE db_log
  /\ pc' = "done"
  /\ UNCHANGED <<env_vars, mapper_vars, monitor_vars, sweep, result, loc, api_calls, prev_success>>

\* no call of sync_user_roles is in progress and none is remembered
ResetSync ==
  /\ pc' = "idle"
  /\ result' = NewResult
  /\ loc' = NewLocals
  /\ api_calls' = <<>>
  /\ db_log' = {}
  /\ prev_success' = NoValue
  /\ UNCHANGED sweep

SourceStates(g) == {NotMember, MemberWith({}), MemberWith({GuildRole(g)})}

\* the subject's roles or membership change on a source guild, between calls
ChangeSourceRoles(g, st) ==
  /\ pc \in {"idle", "done"}
  /\ st \in SourceStates(g)
  /\ st # source_state[g]
  /\ source_state' = [source_state EXCEPT ![g] = st]
  /\ ResetSync
  /\ UNCHANGED <<main_roles, mapper_vars, monitor_vars>>

\* somebody else gives or takes a role of the subject on the target
\* community, between calls
ChangeMainRoles(role_id) ==
  /\ pc \in {"idle", "done"}
  /\ role_id \in MainRoles
  /\ main_roles' = IF role_id \in main_roles THEN main_roles \ {role_id}
                                             ELSE main_roles \cup {role_id}
  /\ ResetSync
  /\ UNCHANGED <<source_state, mapper_vars, monitor_vars>>

(***************************************************************************)
(* Administration of the mappings: RoleMapper.update_mapping,              *)
(* RoleMapper.reload_mappings, and edits of the mappings file.  The calls  *)
(* are made between reconciliations.                                       *)
(***************************************************************************)
\* administrative calls explored in one behaviour
MaxAdminCalls == 2

\* the reload_mappings calls that can be in progress together
ReloadCalls == {"first", "second"}

\* a mapping id that no mapping carries
UnknownMapping == 0

AdminResult(op, mapping_id, enabled, status) ==
  [op |-> op, id |-> mapping_id, enabled |-> enabled, status |-> status]

\* RoleMapper.update_mapping(mapping_id, enabled=enabled).  fail names the
\* statement that raises: "save" Config.save_mappings, "db"
\* DatabaseOperations.cache_role_mapping, "none" nothing.
update_mapping_keeps_cache(cache, mapping) == cache

update_mapping_cache(cache, mapping) ==
  LET key == <<mapping.source_server_id, mapping.source_role_id>>
  IN IF mapping.enabled THEN Put(cache, key, mapping.target_role_id)
                        ELSE Pop(cache, key)

update_mapping(mapping_id, enabled, fail) ==
  /\ pc \in {"idle", "done"}
  /\ admin_calls < MaxAdminCalls
  /\ admin_calls' = admin_calls + 1
  /\ LET i == get_mapping_by_id(role_mappings, mapping_id)
     IN IF i = 0
        THEN /\ admin_result' = AdminResult("update_mapping", mapping_id, enabled, "False")
             /\ UNCHANGED <<mappings_file, role_mappings, db_mappings, mapping_cache>>
        ELSE LET updated == [role_mappings EXCEPT ![i].enabled = enabled]
             IN /\ role_mappings' = updated
                /\ mappings_file' = IF fail = "save" THEN mappings_file ELSE updated
                /\ db_mappings' = IF fail = "none"
                                  THEN cache_role_mapping(db_mappings, updated[i])
                                  ELSE db_mappings
                /\ mapping_cache' = IF fail = "none"
                                    THEN update_mapping_cache(mapping_cache, updated[i])
                                    ELSE mapping_cache
                /\ admin_result' =
                     AdminResult("update_mapping", mapping_id, enabled,
                                 IF fail = "none" THEN "True" ELSE "RoleMappingError")
  /\ ResetSync
  /\ UNCHANGED <<env_vars, monitor_vars, reload_vars>>

\* the table after cache_role_mapping has been awaited for the first n mappings
RECURSIVE CacheRows(_, _, _)
CacheRows(table, mappings, n) ==
  IF n = 0 \/ mappings = <<>> THEN table
  ELSE CacheRows(cache_role_mapping(table, Head(mappings)), Tail(mappings), n - 1)

\* RoleMapper.reload_mappings.  fail names the statement that raises:
\* "config" Config.reload_mappings, "clear" clear_mapping_cache, "cache" the
\* cache_role_mapping call for mapping number k, "load" get_all_mappings
\* inside load_mappings, "none" nothing.
reload_mappings(fail, k) ==
  /\ pc \in {"idle", "done"}
  /\ admin_calls < MaxAdminCalls
  /\ admin_calls' = admin_calls + 1
  /\ fail \in {"none", "config", "clear", "cache", "load"}
  /\ k \in DOMAIN mappings_file
  /\ fail # "cache" => k = 1
  /\ UNCHANGED mappings_file
  /\ role_mappings' = IF fail = "config" THEN role_mappings ELSE mappings_file
  /\ db_mappings' =
       CASE fail \in {"config", "clear"} -> db_mappings
         [] fail = "cache" -> CacheRows({}, mappings_file, k - 1)
         [] OTHER -> CacheRows({}, mappings_file, Len(mappings_file))
  /\ mapping_cache' = IF fail = "none" THEN load_mappings(db_mappings')
                                       ELSE mapping_cache
  /\ admin_result' = AdminResult("reload_mappings", UnknownMapping, FALSE,
                                 IF fail = "none" THEN "None" ELSE "RoleMappingError")
  /\ ResetSync
  /\ UNCHANGED <<env_vars, monitor_vars, reload_vars>>

\* an operator edits config/role_mappings.json by hand: one mapping's
\* enabled flag is flipped; nothing in memory changes until a reload
EditMappingsFile(mapping_id) ==
  /\ admin_calls < MaxAdminCalls
  /\ admin_calls' = admin_calls + 1
  /\ \E i \in DOMAIN mappings_file :
       /\ mappings_file[i].id = mapping_id
       /\ mappings_file' = [mappings_file EXCEPT ![i].enabled = ~@]
  /\ UNCHANGED <<role_mappings, db_mappings, mapping_cache, admin_result,
                 env_vars, sync_vars, monitor_vars, reload_vars>>

\* RoleMapper.add_mapping(mapping_id, ..., enabled).  The source pair and the
\* target role of an id are those of the catalogue.  fail names the statement
\* that raises: "save" Config.save_mappings, "db" cache_role_mapping, "none"
\* nothing; an id already in the list makes Config.add_role_mapping raise.
add_mapping(mapping_id, enabled, fail) ==
  /\ pc \in {"idle", "done"}
  /\ admin_calls < MaxAdminCalls
  /\ admin_calls' = admin_calls + 1
  /\ IF get_mapping_by_id(role_mappings, mapping_id) # 0
     THEN /\ admin_result' = AdminResult("add_mapping", mapping_id, enabled,
                                         "RoleMappingError: already exists")
          /\ UNCHANGED <<mappings_file, role_mappings, db_mappings, mapping_cache>>
     ELSE LET mapping == RoleMapping(mapping_id, enabled)
              appended == Append(role_mappings, mapping)
          IN /\ role_mappings' = appended
             /\ mappings_file' = IF fail = "save" THEN mappings_file ELSE appended
             /\ db_mappings' = IF fail = "none"
                               THEN cache_role_mapping(db_mappings, mapping)
                               ELSE db_mappings
             /\ mapping_cache' =
                  IF fail = "none" /\ enabled
                  THEN Put(mapping_cache,
                           <<mapping.source_server_id, mapping.source_role_id>>,
                           mapping.target_role_id)
                  ELSE mapping_cache
             /\ admin_result' =
                  AdminResult("add_mapping", mapping_id, enabled,
                              IF fail = "none" THEN "True" ELSE "RoleMappingError")
  /\ ResetSync
  /\ UNCHANGED <<env_vars, monitor_vars, reload_vars>>

\* Config.remove_role_mapping: the list without the mappings of that id
RECURSIVE WithoutId(_, _)
WithoutId(mappings, mapping_id) ==
  IF mappings = <<>> THEN <<>>
  ELSE IF Head(mappings).id = mapping_id
       THEN WithoutId(Tail(mappings), mapping_id)
       ELSE <<Head(mappings)>> \o WithoutId(Tail(mappings), mapping_id)

\* RoleMapper.remove_mapping(mapping_id).  fail names the statement that
\* raises: "save" Config.save_mappings, "db" DatabaseOperations.remove_mapping,
\* "none" nothing.
remove_mapping_unknown_raises(found) == "RoleMappingError"

remove_mapping_unknown(found) == "False"

remove_mapping(mapping_id, fail) ==
  /\ pc \in {"idle", "done"}
  /\ admin_calls < MaxAdminCalls
  /\ admin_calls' = admin_calls + 1
  /\ LET i == get_mapping_by_id(role_mappings, mapping_id)
     IN IF i = 0
        THEN /\ admin_result' = AdminResult("remove_mapping", mapping_id, FALSE,
                                            remove_mapping_unknown(i))
             /\ UNCHANGED <<mappings_file, role_mappings, db_mappings, mapping_cache>>
        ELSE LET mapping == role_mappings[i]
                 remaining == WithoutId(role_mappings, mapping_id)
             IN /\ role_mappings' = remaining
                /\ mappings_file' = IF fail = "save" THEN mappings_file ELSE remaining
                /\ db_mappings' = IF fail = "none"
                                  THEN {row \in db_mappings : row.id # mapping_id}
                                  ELSE db_mappings
                /\ mapping_cache' =
                     IF fail = "none"
                     THEN Pop(mapping_cache,
                              <<mapping.source_server_id, mapping.source_role_id>>)
                     ELSE mapping_cache
                /\ admin_result' =
                     AdminResult("remove_mapping", mapping_id, FALSE,
                                 IF fail = "none" THEN "True" ELSE "RoleMappingError")
  /\ ResetSync
  /\ UNCHANGED <<env_vars, monitor_vars, reload_vars>>

(***************************************************************************)
(* RoleMapper.reload_mappings step by step.  Every await of the call is    *)
(* the end of a step, so other calls run between the steps; the commands   *)
(* of two administrators make two calls that overlap.                      *)
(***************************************************************************)
\* reload_mappings leaves by raising RoleMappingError
ReloadRaise(p) ==
  /\ reload_pc' = [reload_pc EXCEPT ![p] = "idle"]
  /\ admin_result' = AdminResult("reload_mappings", UnknownMapping, FALSE,
                                 "RoleMappingError")

\* lines 74-81: Config.reload_mappings reads the file, then the call waits
\* for clear_mapping_cache
ReloadConfig(p, ok) ==
  /\ reload_pc[p] = "idle"
  /\ admin_calls < MaxAdminCalls
  /\ admin_calls' = admin_calls + 1
  /\ IF ok
     THEN /\ role_mappings' = mappings_file
          /\ loaded_lists' = loaded_lists \cup {mappings_file}
          /\ reload_pc' = [reload_pc EXCEPT ![p] = "clear"]
          /\ UNCHANGED admin_result
     ELSE /\ ReloadRaise(p)
          /\ UNCHANGED <<role_mappings, loaded_lists>>
  /\ UNCHANGED <<mappings_file, db_mappings, mapping_cache, reload_list, reload_k,
                 env_vars, sync_vars, monitor_vars>>

\* lines 81-85: clear_mapping_cache answers, the call takes the list of
\* Config and waits for the first cache_role_mapping
ReloadClear(p, ok) ==
  /\ reload_pc[p] = "clear"
  /\ IF ok
     THEN /\ db_mappings' = {}
          /\ reload_list' = [reload_list EXCEPT ![p] = role_mappings]
          /\ reload_k' = [reload_k EXCEPT ![p] = 0]
          /\ reload_pc' = [reload_pc EXCEPT
                             ![p] = IF role_mappings = <<>> THEN "load" ELSE "cache"]
          /\ UNCHANGED admin_result
     ELSE /\ ReloadRaise(p)
          /\ UNCHANGED <<db_mappings, reload_list, reload_k>>
  /\ UNCHANGED <<mappings_file, role_mappings, mapping_cache, admin_calls,
                 loaded_lists, env_vars, sync_vars, monitor_vars>>

\* lines 85-94: one cache_role_mapping of the loop answers
ReloadCache(p, ok) ==
  /\ reload_pc[p] = "cache"
  /\ IF ok
     THEN /\ db_mappings' =
               cache_role_mapping(db_mappings, reload_list[p][reload_k[p] + 1])
          /\ reload_k' = [reload_k EXCEPT ![p] = @ + 1]
          /\ reload_pc' = [reload_pc EXCEPT
                             ![p] = IF reload_k[p] + 1 = Len(reload_list[p])
                                    THEN "load" ELSE "cache"]
          /\ UNCHANGED admin_result
     ELSE /\ ReloadRaise(p)
          /\ UNCHANGED <<db_mappings, reload_k>>
  /\ UNCHANGED <<mappings_file, role_mappings, mapping_cache, admin_calls,
                 reload_list, loaded_lists, env_vars, sync_vars, monitor_vars>>

\* lines 96-97 and load_mappings 40-70: get_all_mappings answers, then the
\* cache is cleared and filled without a further await
load_mappings_result(cache, table, ok) ==
  IF ok THEN load_mappings(table) ELSE cache

ReloadLoad(p, ok) ==
  /\ reload_pc[p] = "load"
  /\ mapping_cache' = load_mappings_result(mapping_cache, db_mappings, ok)
  /\ IF ok
     THEN /\ reload_pc' = [reload_pc EXCEPT ![p] = "idle"]
          /\ admin_result' = AdminResult("reload_mappings", UnknownMapping, FALSE, "None")
     ELSE ReloadRaise(p)
  /\ UNCHANGED <<mappings_file, role_mappings, db_mappings, admin_calls,
                 reload_list, reload_k, loaded_lists, env_vars, sync_vars,
                 monitor_vars>>

(***************************************************************************)
(* RoleMonitorCog: change detector, debounce queue and drain loop.         *)
(***************************************************************************)
MonitorUsers == {1, 2}

\* RoleMonitorCog.debounce_delay, seconds
debounce_delay == 5

\* qualifying changes arrive up to MaxChangeTime; the clock runs on until
\* every queued entry has had time to become due
MaxChangeTime == 6
MaxTime == MaxChangeTime + debounce_delay + 1

\* Config.is_auto_sync_enabled: sync.auto_sync_enabled, default True
is_auto_sync_enabled == TRUE

Perms(S) == {seq \in [1..Cardinality(S) -> S] : Range(seq) = S}

\* RoleMonitorCog.schedule_sync
schedule_sync_keep_first(pending, user_id, t) ==
  IF user_id \in DOMAIN pending THEN pending ELSE Put(pending, user_id, t)

schedule_sync(pending, user_id, t) == Put(pending, user_id, t)

\* the filter of RoleMonitorCog.on_member_update
Qualifies_counts_bots(cache, guild_id, changed, is_bot) ==
  /\ auto_sync_enabled
  /\ guild_id # MainServer
  /\ changed # {}
  /\ \E role_id \in changed : has_mapping(cache, guild_id, role_id)

Qualifies(cache, guild_id, changed, is_bot) ==
  /\ auto_sync_enabled
  /\ ~is_bot
  /\ guild_id # MainServer
  /\ changed # {}
  /\ \E role_id \in changed : has_mapping(cache, guild_id, role_id)

\* a change at time t continues the burst when it comes less than
\* debounce_delay after the burst's last change
InBurst(burst, t) == burst.last >= 0 /\ t - burst.last < debounce_delay

\* RoleMonitorCog.on_member_update lines 77-123: changed is the symmetric
\* difference of the role sets before and after
MemberUpdate(user_id, guild_id, changed, is_bot) ==
  /\ cog_loaded
  /\ now <= MaxChangeTime
  /\ IF Qualifies(mapping_cache, guild_id, changed, is_bot)
     THEN /\ pending_syncs' = schedule_sync(pending_syncs, user_id, now)
          /\ IF InBurst(last_change[user_id], now)
             THEN /\ last_change' = [last_change EXCEPT ![user_id].last = now]
                  /\ UNCHANGED dispatched
             ELSE /\ last_change' = [last_change EXCEPT
                                       ![user_id] = [first |-> now, last |-> now]]
                  /\ dispatched' = [dispatched EXCEPT ![user_id] = <<>>]
     ELSE UNCHANGED <<pending_syncs, last_change, dispatched>>
  /\ UNCHANGED <<env_vars, mapper_vars, sync_vars, cog_cache, now, task_running, drain_pc,
                 users_to_sync, scan_count, call_count, auto_sync_enabled,
                 dispatch_log, task_vars>>

\* the handler as the drain loop sees it
on_member_update(user_id, guild_id, changed, is_bot) ==
  /\ MemberUpdate(user_id, guild_id, changed, is_bot)
  /\ UNCHANGED last_event

NoEvent == [user_id |-> 0, guild_id |-> 0, changed |-> {}, is_bot |-> FALSE, at |-> -1]

\* inspected events arrive up to MaxEventTime
MaxEventTime == 1

\* the handler with its event kept for inspection
on_member_update_event(user_id, guild_id, changed, is_bot) ==
  /\ now <= MaxEventTime
  /\ MemberUpdate(user_id, guild_id, changed, is_bot)
  /\ last_event' = [user_id |-> user_id, guild_id |-> guild_id,
                    changed |-> changed, is_bot |-> is_bot, at |-> now]

\* users whose entry is old enough at the scan
DueUsers_strictly_older(pending, t) ==
  {user_id \in DOMAIN pending : t - pending[user_id] > debounce_delay}

DueUsers(pending, t) ==
  {user_id \in DOMAIN pending : t - pending[user_id] >= debounce_delay}

\* process_pending_syncs line 158: del self.pending_syncs[user_id] for every
\* due user
RemoveDue_keeps_entries(pending, due) == pending

RemoveDue(pending, due) == [u \in (DOMAIN pending) \ due |-> pending[u]]

\* process_pending_syncs lines 146-158: collect and remove the due entries
DrainScan ==
  /\ task_running
  /\ ~cancel_requested
  /\ drain_pc = "idle"
  /\ LET due == DueUsers(pending_syncs, now)
     IN /\ pending_syncs' = RemoveDue(pending_syncs, due)
        /\ users_to_sync' \in Perms(due)
        /\ drain_pc' = IF due = {} THEN "idle" ELSE "dispatching"
        /\ dispatched' = [u \in MonitorUsers |->
                            IF u \in due THEN Append(dispatched[u], now) ELSE dispatched[u]]
        /\ scan_count' = [u \in MonitorUsers |->
                            IF u \in due THEN scan_count[u] + 1 ELSE scan_count[u]]
        /\ dispatch_log' = IF due = {} THEN dispatch_log ELSE <<>>
  /\ UNCHANGED <<env_vars, mapper_vars, sync_vars, cog_cache, now, task_running, last_change,
                 call_count, auto_sync_enabled, last_event, task_vars>>

\* process_pending_syncs lines 161-188: what is left of users_to_sync after
\* the call for its head returned a result or raised; except Exception logs
\* the error and the for loop goes on
AfterDispatch_raise_ends_run(users, outcome) ==
  IF outcome = "raised" THEN <<>> ELSE Tail(users)

AfterDispatch(users, outcome) == Tail(users)

\* process_pending_syncs lines 161-188: one sync_user_roles(user_id, "auto")
\* call, its result or exception logged, then asyncio.sleep(0.5)
DrainDispatch(outcome) ==
  /\ ~cancel_requested
  /\ drain_pc = "dispatching"
  /\ users_to_sync # <<>>
  /\ outcome \in {"success", "failed", "raised"}
  /\ call_count' = [call_count EXCEPT ![Head(users_to_sync)] = @ + 1]
  /\ users_to_sync' = AfterDispatch(users_to_sync, outcome)
  /\ drain_pc' = IF AfterDispatch(users_to_sync, outcome) = <<>>
                 THEN "idle" ELSE "dispatching"
  /\ dispatch_log' = Append(dispatch_log, <<Head(users_to_sync), outcome>>)
  /\ UNCHANGED <<env_vars, mapper_vars, sync_vars, cog_cache, now, pending_syncs, task_running,
                 last_change, dispatched, scan_count, auto_sync_enabled, last_event,
                 task_vars>>

\* one second passes
Tick ==
  /\ now < MaxTime
  /\ now' = now + 1
  /\ UNCHANGED <<env_vars, mapper_vars, sync_vars, cog_cache, pending_syncs, task_running,
                 drain_pc, users_to_sync, last_change, dispatched, scan_count,
                 call_count, auto_sync_enabled, last_event, dispatch_log, task_vars>>

(***************************************************************************)
(* SyncEngine.sync_all_users: one sweep over the members of the target     *)
(* community with the database operations collected in batch_db_ops.  A    *)
(* sync_user_roles call of the sweep is given by its outcome, the number   *)
(* of entries it appended to batch_db_ops and whether it changed roles.    *)
(***************************************************************************)
\* guild.members of the target community
GuildMembers == {1, 2, 3}

\* the periodic flush runs when batch_db_ops holds more entries than this
FlushThreshold == 200

\* entries one sync_user_roles call can append to batch_db_ops: none on an
\* early return, a few for a call without role changes, many for a call
\* that added many roles
BatchOpsPerSync == {0, 4, 150}

NewStats ==
  [total |-> 0, processed |-> 0, success |-> 0, failed |-> 0, skipped |-> 0,
   no_changes |-> 0, db_errors |-> 0, error |-> 0]

\* the sync_user_roles call that sync_all_users makes for the subject: its
\* position, its locals, its SyncResult, the role mutations it issued; and
\* for the properties, the cache entries it read, the position of the
\* drain's call at the latest step of the sweep, and whether a call of the
\* drain was under way at some time since the prefetch began
NewCachedCall ==
  [pc |-> "idle", loc |-> NewLocals, result |-> NewResult, api_calls |-> <<>>,
   seen |-> [g \in SourceGuilds |-> NotMember], live_pc |-> "idle",
   overlap |-> FALSE]

\* no sync_all_users call has begun; source_members_cache holds nothing for
\* the subject
NewSweep ==
  [pc |-> "idle", members |-> <<>>, batch_len |-> 0, db_errors |-> 0,
   failed_flushes |-> 0, calls |-> [m \in GuildMembers |-> 0], applied |-> {},
   stats |-> NewStats,
   cache |-> [g \in SourceGuilds |-> NotMember], attached |-> {},
   chunk_failed |-> {}, call |-> NewCachedCall]

\* DatabaseOperations has no execute_batch: the call raises AttributeError
execute_batch(db_ok) == "AttributeError"

\* SyncEngine._flush_batch_db_ops: True for an empty list or a batch that was
\* executed, False when execute_batch raised
flush_batch_db_ops(batch_len, db_ok) ==
  IF batch_len = 0 THEN TRUE ELSE execute_batch(db_ok) = "ok"

\* sync_all_users lines 780-782 and 793-794: db_errors after a flush
CountFlush_ignores_failure(db_errors, flushed) == db_errors

CountFlush(db_errors, flushed) == IF flushed THEN db_errors ELSE db_errors + 1

\* sync_all_users lines 723-748: the guild lookup, the member list without
\* bots, the stats, the prefetch of the source members
SweepStart(found, bots) ==
  /\ sweep.pc = "idle"
  /\ bots \subseteq GuildMembers
  /\ sweep' =
       IF ~found
       THEN [sweep EXCEPT !.pc = "done", !.stats = [NewStats EXCEPT !.error = 1]]
       ELSE LET non_bot_members == SortedSeq(GuildMembers \ bots)
            IN [sweep EXCEPT
                  !.pc = IF non_bot_members = <<>> THEN "final" ELSE "loop",
                  !.members = non_bot_members,
                  !.stats = [NewStats EXCEPT !.total = Len(non_bot_members),
                                             !.skipped = Cardinality(bots)]]
  /\ UNCHANGED <<env_vars, mapper_vars, monitor_vars, pc, result, loc, api_calls,
                 db_log, prev_success>>

\* sync_all_users lines 760-777: the stats after the call for member number
\* i + 1; a call that raised is counted as failed by the except clause
CountMember_raise_not_counted(st, i, outcome, changed) ==
  [st EXCEPT
     !.processed = i + 1,
     !.success = IF outcome = "success" THEN @ + 1 ELSE @,
     !.failed = IF outcome = "failed" THEN @ + 1 ELSE @,
     !.no_changes = IF outcome # "raised" /\ ~changed THEN @ + 1 ELSE @]

CountMember(st, i, outcome, changed) ==
  [st EXCEPT
     !.processed = i + 1,
     !.success = IF outcome = "success" THEN @ + 1 ELSE @,
     !.failed = IF outcome = "success" THEN @ ELSE @ + 1,
     !.no_changes = IF outcome # "raised" /\ ~changed THEN @ + 1 ELSE @]

\* sync_all_users lines 750-790: one turn of the loop, the sync_user_roles
\* call for the next member and the periodic flush
SweepSync(outcome, ops, changed, db_ok) ==
  /\ sweep.pc = "loop"
  /\ outcome \in {"success", "failed", "raised"}
  /\ ops \in BatchOpsPerSync
  /\ changed => (ops > 0 /\ outcome # "raised")
  /\ LET i == sweep.stats.processed
         mb == sweep.members[i + 1]
         appended == sweep.batch_len + ops
         flushing == appended > FlushThreshold
         flushed == flush_batch_db_ops(appended, db_ok)
         st == sweep.stats
     IN sweep' =
          [sweep EXCEPT
             !.calls[mb] = @ + 1,
             !.applied = IF changed THEN @ \cup {mb} ELSE @,
             !.stats = CountMember(st, i, outcome, changed),
             !.batch_len = IF flushing THEN 0 ELSE appended,
             !.db_errors = IF flushing THEN CountFlush(@, flushed) ELSE @,
             !.failed_flushes = IF flushing /\ ~flushed THEN @ + 1 ELSE @,
             !.pc = IF i + 1 = Len(sweep.members) THEN "final" ELSE "loop"]
  /\ UNCHANGED <<env_vars, mapper_vars, monitor_vars, pc, result, loc, api_calls,
                 db_log, prev_success>>

\* sync_all_users lines 792-806: the final flush, db_errors put into the
\* stats when it is positive, return stats
SweepFinal(db_ok) ==
  /\ sweep.pc = "final"
  /\ LET flushed == flush_batch_db_ops(sweep.batch_len, db_ok)
         errors == CountFlush(sweep.db_errors, flushed)
     IN sweep' =
          [sweep EXCEPT
             !.db_errors = errors,
             !.failed_flushes = IF flushed THEN @ ELSE @ + 1,
             !.stats = [@ EXCEPT !.db_errors = IF errors > 0 THEN errors ELSE 0],
             !.pc = "done"]
  /\ UNCHANGED <<env_vars, mapper_vars, monitor_vars, pc, result, loc, api_calls,
                 db_log, prev_success>>

(***************************************************************************)
(* The sync_user_roles call of sync_all_users for the subject: the source  *)
(* roles come from source_members_cache, the member object is passed in,   *)
(* the database operations are appended to batch_db_ops.  The cache holds  *)
(* the Member objects of guild.members: the gateway updates the roles of   *)
(* such an object in place while the subject stays a member, and leaves    *)
(* the object as it was when the subject leaves the guild.                 *)
(***************************************************************************)
\* SyncEngine._prefetch_source_members, the entries of the subject: a guild
\* whose chunk() raised is skipped
prefetch_source_members(state, chunk_ok) ==
  [g \in SourceGuilds |-> IF chunk_ok[g] /\ state[g].member THEN state[g] ELSE NotMember]

\* SyncEngine._get_roles_from_cache
get_roles_from_cache_first_guild_only(cache) ==
  LET with_roles == {g \in SourceGuilds : cache[g].member /\ cache[g].roles # {}}
      first == {g \in with_roles : \A h \in with_roles : g <= h}
  IN [mutual_guilds |-> first,
      user_roles_map |-> [g \in first |-> cache[g].roles],
      fetch_errors |-> {}]

get_roles_from_cache(cache) ==
  LET with_roles == {g \in SourceGuilds : cache[g].member /\ cache[g].roles # {}}
  IN [mutual_guilds |-> with_roles,
      user_roles_map |-> [g \in with_roles |-> cache[g].roles],
      fetch_errors |-> {}]

\* a call of the drain is or was under way at this step of the sweep
Overlap(call) ==
  \/ call.overlap
  \/ pc \notin {"idle", "done"}
  \/ call.live_pc = "idle" /\ pc = "done"

\* sync_all_users lines 747-748: the prefetch of the source members
SweepPrefetch(chunk_ok) ==
  /\ sweep.call.pc = "idle"
  /\ sweep' = [sweep EXCEPT
                 !.cache = prefetch_source_members(source_state, chunk_ok),
                 !.attached = {g \in SourceGuilds : chunk_ok[g] /\ source_state[g].member},
                 !.chunk_failed = {g \in SourceGuilds : ~chunk_ok[g]},
                 !.call = [NewCachedCall EXCEPT
                             !.pc = "prefetched",
                             !.live_pc = pc,
                             !.overlap = pc \notin {"idle", "done"}]]
  /\ UNCHANGED <<env_vars, mapper_vars, monitor_vars, pc, result, loc, api_calls,
                 db_log, prev_success>>

\* sync_user_roles lines 100-182 with member and source_members_cache given:
\* no query is made; the early return, the diff, or its exception
CachedDiff(manageable) ==
  /\ sweep.call.pc = "prefetched"
  /\ LET got == get_roles_from_cache(sweep.cache)
         target_role_ids == calculate_target_roles(mapping_cache, got.user_roles_map)
         changes == calculate_role_changes(mapping_cache, main_roles,
                                           target_role_ids, manageable)
         seen == [sweep.call.loc EXCEPT
                    !.main_member = TRUE,
                    !.current_role_ids = main_roles,
                    !.manageable = manageable,
                    !.mutual_guilds = got.mutual_guilds,
                    !.user_roles_map = got.user_roles_map,
                    !.fetch_errors = got.fetch_errors]
         read == [sweep EXCEPT !.call.seen = sweep.cache,
                               !.call.live_pc = pc,
                               !.call.overlap = Overlap(sweep.call)]
     IN sweep' =
          IF got.mutual_guilds = {}
          THEN [read EXCEPT !.call.loc = seen,
                            !.call.result.success = TRUE,
                            !.call.pc = "returned"]
          ELSE IF changes.raised
          THEN [read EXCEPT
                  !.call.loc = [seen EXCEPT !.target_role_ids = target_role_ids],
                  !.call.result =
                     [ExceptHandler(sweep.call.result, TRUE).result EXCEPT
                        !.source_servers = DOMAIN got.user_roles_map],
                  !.call.pc = "returned"]
          ELSE [read EXCEPT
                  !.call.loc = [seen EXCEPT
                                  !.target_role_ids = target_role_ids,
                                  !.roles_to_add = changes.roles_to_add,
                                  !.roles_to_remove = changes.roles_to_remove,
                                  !.unmanageable_role_ids = changes.unmanageable_roles],
                  !.call.result.source_servers = DOMAIN got.user_roles_map,
                  !.call.pc = "cached_add"]
  /\ UNCHANGED <<env_vars, mapper_vars, monitor_vars, pc, result, loc, api_calls,
                 db_log, prev_success>>

\* apply_role_changes lines 509-585 with batch_db_ops given: the add calls;
\* the audit rows go to batch_db_ops, no write is awaited
CachedAdd(bulk, ok_roles) ==
  /\ sweep.call.pc = "cached_add"
  /\ ok_roles \subseteq sweep.call.loc.roles_to_add
  /\ LET a == AddRoles(sweep.call.loc.roles_to_add, bulk, ok_roles)
     IN /\ main_roles' = main_roles \cup a.applied
        /\ sweep' = [sweep EXCEPT
                       !.call.api_calls = @ \o a.calls,
                       !.call.loc.actually_added = a.actually_added,
                       !.call.loc.failed_to_add = a.failed_to_add,
                       !.call.live_pc = pc,
                       !.call.overlap = Overlap(sweep.call),
                       !.call.pc = "cached_remove"]
  /\ UNCHANGED <<source_state, mapper_vars, monitor_vars, pc, result, loc, api_calls,
                 db_log, prev_success>>

\* apply_role_changes lines 587-615 and sync_user_roles lines 194-265 with
\* batch_db_ops given: the remove call, the result, return
CachedRemove(outcome) ==
  /\ sweep.call.pc = "cached_remove"
  /\ LET roles_to_remove == sweep.call.loc.roles_to_remove
         removing == roles_to_remove # {}
         removal_success == removing /\ outcome = "ok"
         locals == [sweep.call.loc EXCEPT !.removal_success = removal_success]
     IN /\ main_roles' = IF removal_success THEN main_roles \ roles_to_remove
                                            ELSE main_roles
        /\ sweep' = [sweep EXCEPT
                       !.call.api_calls =
                          IF removing
                          THEN Append(@, RemoveCall(roles_to_remove, removal_success))
                          ELSE @,
                       !.call.loc = locals,
                       !.call.result = CollectResult(@, locals),
                       !.call.live_pc = pc,
                       !.call.overlap = Overlap(sweep.call),
                       !.call.pc = "returned"]
  /\ UNCHANGED <<source_state, mapper_vars, monitor_vars, pc, result, loc, api_calls,
                 db_log, prev_success>>

\* GUILD_MEMBER_UPDATE or GUILD_MEMBER_REMOVE for the subject on a source
\* guild, before the drain dispatches the subject's call: the cached Member
\* object follows a change of roles and keeps its last roles when the
\* subject leaves
MemberObjectChange(g, st) ==
  /\ pc = "idle"
  /\ st \in SourceStates(g)
  /\ st # source_state[g]
  /\ source_state' = [source_state EXCEPT ![g] = st]
  /\ sweep' = [sweep EXCEPT
                 !.cache[g] = IF g \in sweep.attached /\ st.member THEN st ELSE @,
                 !.attached = IF st.member THEN @ ELSE @ \ {g}]
  /\ UNCHANGED <<main_roles, mapper_vars, monitor_vars, pc, result, loc, api_calls,
                 db_log, prev_success>>

(***************************************************************************)
(* The drain task: discord.ext.tasks.Loop started and cancelled by         *)
(* cog_load, cog_unload and the two toggle_autosync commands.  One         *)
(* sync_user_roles call of a drain run is a start step and an end step.    *)
(***************************************************************************)
NoToggle == [cog |-> "none", was_running |-> FALSE, was_stopping |-> FALSE]

\* the task exists, is not finished and has not been asked to stop
Running == task_running /\ ~cancel_requested

\* process_pending_syncs lines 161-167: the call of sync_user_roles for the
\* next listed user begins
DispatchStart ==
  /\ task_running
  /\ ~cancel_requested
  /\ drain_pc = "dispatching"
  /\ users_to_sync # <<>>
  /\ drain_pc' = "in_call"
  /\ running_syncs' = [running_syncs EXCEPT ![Head(users_to_sync)] = @ + 1]
  /\ call_count' = [call_count EXCEPT ![Head(users_to_sync)] = @ + 1]
  /\ UNCHANGED <<env_vars, mapper_vars, sync_vars, cog_cache, now, pending_syncs, task_running,
                 users_to_sync, last_change, dispatched, scan_count,
                 auto_sync_enabled, last_event, dispatch_log, cancel_requested,
                 interrupted, cog_loaded, last_toggle>>

\* process_pending_syncs lines 169-188: the call returns or raises, the
\* outcome is logged, asyncio.sleep(0.5)
DispatchEnd(outcome) ==
  /\ task_running
  /\ ~cancel_requested
  /\ drain_pc = "in_call"
  /\ outcome \in {"success", "failed", "raised"}
  /\ running_syncs' = [running_syncs EXCEPT ![Head(users_to_sync)] = @ - 1]
  /\ users_to_sync' = AfterDispatch(users_to_sync, outcome)
  /\ drain_pc' = IF AfterDispatch(users_to_sync, outcome) = <<>>
                 THEN "idle" ELSE "dispatching"
  /\ dispatch_log' = Append(dispatch_log, <<Head(users_to_sync), outcome>>)
  /\ UNCHANGED <<env_vars, mapper_vars, sync_vars, cog_cache, now, pending_syncs, task_running,
                 last_change, dispatched, scan_count, call_count,
                 auto_sync_enabled, last_event, cancel_requested, interrupted,
                 cog_loaded, last_toggle>>

\* the calls still executing after CancelledError was thrown into the task
\* that awaits sync_user_roles for user_id: the exception is no Exception,
\* so neither sync_user_roles nor process_pending_syncs catches it and the
\* call ends with it
InterruptedSyncs_call_runs_on(running, user_id) == running

InterruptedSyncs(running, user_id) == [running EXCEPT ![user_id] = @ - 1]

\* the cancelled task is resumed with CancelledError at the await it is
\* suspended in: inside sync_user_roles, in asyncio.sleep(0.5) or in the
\* sleep between two runs
CancelDelivered ==
  /\ task_running
  /\ cancel_requested
  /\ IF drain_pc = "in_call"
     THEN /\ running_syncs' = InterruptedSyncs(running_syncs, Head(users_to_sync))
          /\ interrupted' = interrupted \cup {Head(users_to_sync)}
     ELSE UNCHANGED <<running_syncs, interrupted>>
  /\ users_to_sync' = <<>>
  /\ drain_pc' = "idle"
  /\ task_running' = FALSE
  /\ cancel_requested' = FALSE
  /\ UNCHANGED <<env_vars, mapper_vars, sync_vars, cog_cache, now, pending_syncs, last_change,
                 dispatched, scan_count, call_count, auto_sync_enabled, last_event,
                 dispatch_log, cog_loaded, last_toggle>>

\* process_pending_syncs.cancel() asks a task that is not finished to stop;
\* process_pending_syncs.start() makes a new task, or raises RuntimeError
\* and changes nothing while the task is not finished
ToggleTask(stop) ==
  IF stop
  THEN /\ cancel_requested' = task_running
       /\ UNCHANGED task_running
  ELSE /\ task_running' = TRUE
       /\ UNCHANGED cancel_requested

\* a command handler or cog_unload runs only while the drain task is
\* suspended at an await: in the sleep between two runs, inside
\* sync_user_roles or in asyncio.sleep(0.5); process_pending_syncs has no
\* await between the scan and the first call, nor between the sleep and the
\* next call
TaskSuspended == drain_pc # "dispatching"

\* RoleMonitorCog.toggle_autosync: decides by the configuration value
RoleMonitorCog_toggle_autosync ==
  /\ cog_loaded
  /\ TaskSuspended
  /\ last_toggle' = [cog |-> "RoleMonitorCog", was_running |-> Running,
                     was_stopping |-> cancel_requested]
  /\ ToggleTask(auto_sync_enabled)
  /\ UNCHANGED <<env_vars, mapper_vars, sync_vars, cog_cache, now, pending_syncs, drain_pc,
                 users_to_sync, last_change, dispatched, scan_count, call_count,
                 auto_sync_enabled, last_event, dispatch_log, running_syncs,
                 interrupted, cog_loaded>>

\* AdminCommandsCog.toggle_autosync: decides by process_pending_syncs.is_running()
AdminCommandsCog_toggle_autosync ==
  /\ cog_loaded
  /\ TaskSuspended
  /\ last_toggle' = [cog |-> "AdminCommandsCog", was_running |-> Running,
                     was_stopping |-> cancel_requested]
  /\ ToggleTask(task_running)
  /\ UNCHANGED <<env_vars, mapper_vars, sync_vars, cog_cache, now, pending_syncs, drain_pc,
                 users_to_sync, last_change, dispatched, scan_count, call_count,
                 auto_sync_enabled, last_event, dispatch_log, running_syncs,
                 interrupted, cog_loaded>>

\* RoleMonitorCog.cog_unload
cog_unload ==
  /\ cog_loaded
  /\ TaskSuspended
  /\ cog_loaded' = FALSE
  /\ ToggleTask(TRUE)
  /\ UNCHANGED <<env_vars, mapper_vars, sync_vars, cog_cache, now, pending_syncs, drain_pc,
                 users_to_sync, last_change, dispatched, scan_count, call_count,
                 auto_sync_enabled, last_event, dispatch_log, running_syncs,
                 interrupted, last_toggle>>

(***************************************************************************)
(* Initial states and specifications.                                      *)
(***************************************************************************)
\* the mappings file with the given ids enabled, in id order
FileWith(enabled_ids) ==
  LET ids == SortedSeq(MappingIds)
  IN [i \in 1..Len(ids) |-> RoleMapping(ids[i], ids[i] \in enabled_ids)]

\* no reload_mappings call is running
InitReload(mappings) ==
  /\ reload_pc = [p \in ReloadCalls |-> "idle"]
  /\ reload_list = [p \in ReloadCalls |-> <<>>]
  /\ reload_k = [p \in ReloadCalls |-> 0]
  /\ loaded_lists = {mappings}

\* Config.__init__, main.py _cache_role_mappings, RoleMapper.initialize
InitMapper(enabled_ids) ==
  /\ mappings_file = FileWith(enabled_ids)
  /\ role_mappings = FileWith(enabled_ids)
  /\ db_mappings = StartupTable(FileWith(enabled_ids))
  /\ mapping_cache = load_mappings(StartupTable(FileWith(enabled_ids)))
  /\ cog_cache = cog_load(StartupTable(FileWith(enabled_ids)))
  /\ admin_result = AdminResult("none", UnknownMapping, FALSE, "none")
  /\ admin_calls = 0
  /\ InitReload(FileWith(enabled_ids))

InitSync ==
  /\ pc = "idle"
  /\ result = NewResult
  /\ loc = NewLocals
  /\ api_calls = <<>>
  /\ db_log = {}
  /\ prev_success = NoValue
  /\ sweep = NewSweep

\* RoleMonitorCog.__init__ and cog_load under the given configuration value
InitMonitorWith(enabled) ==
  /\ auto_sync_enabled = enabled
  /\ last_event = NoEvent
  /\ dispatch_log = <<>>
  /\ cancel_requested = FALSE
  /\ running_syncs = [u \in MonitorUsers |-> 0]
  /\ interrupted = {}
  /\ cog_loaded = TRUE
  /\ last_toggle = NoToggle
  /\ now = 0
  /\ pending_syncs = EmptyMap
  /\ task_running = enabled
  /\ drain_pc = "idle"
  /\ users_to_sync = <<>>
  /\ last_change = [u \in MonitorUsers |-> [first |-> -1, last |-> -1]]
  /\ dispatched = [u \in MonitorUsers |-> <<>>]
  /\ scan_count = [u \in MonitorUsers |-> 0]
  /\ call_count = [u \in MonitorUsers |-> 0]

\* RoleMonitorCog.__init__ and cog_load with auto-sync enabled
InitMonitor == InitMonitorWith(is_auto_sync_enabled)

\* reconciliation of one subject under every mapping index; the subject
\* starts outside the source guilds and without roles, and every role state
\* is reached through ChangeSourceRoles and ChangeMainRoles
Init ==
  /\ source_state = [g \in SourceGuilds |-> NotMember]
  /\ main_roles = {}
  /\ \E enabled_ids \in SUBSET MappingIds : InitMapper(enabled_ids)
  /\ InitSync
  /\ InitMonitor

SyncStep ==
  \/ \E found \in BOOLEAN, db_ok \in BOOLEAN : StartSync(found, db_ok)
  \/ \E outcome \in {"ok", "not_found", "error"}, db_ok \in BOOLEAN :
       FetchTarget(outcome, db_ok)
  \/ \E outcomes \in [SourceGuilds -> {"ok", "error"}], db_ok \in BOOLEAN :
       FetchSources(outcomes, db_ok)
  \/ \E manageable \in SUBSET MainRoles, db_ok \in BOOLEAN : Diff(manageable, db_ok)
  \/ \E bulk \in {"ok", "forbidden", "error"}, ok_roles \in SUBSET MainRoles,
        db_ok \in BOOLEAN : ApplyAdd(bulk, ok_roles, db_ok)
  \/ \E outcome \in {"ok", "forbidden", "error"}, db_ok \in BOOLEAN :
       ApplyRemove(outcome, db_ok)
  \/ \E fail \in {"none", "log", "state", "stats"} : Record(fail)
  \/ \E db_ok \in BOOLEAN : RecordSession(db_ok)

Next ==
  \/ SyncStep
  \/ \E g \in SourceGuilds, st \in UNION {SourceStates(h) : h \in SourceGuilds} :
       ChangeSourceRoles(g, st)
  \/ \E role_id \in MainRoles : ChangeMainRoles(role_id)

Spec == Init /\ [][Next]_vars

\* the role monitor alone: role-change events, the clock and the drain loop
\* over the index of all catalogued mappings
InitMonitorSpec ==
  /\ source_state = [g \in SourceGuilds |-> NotMember]
  /\ main_roles = {}
  /\ InitMapper(MappingIds)
  /\ InitSync
  /\ InitMonitor

NextMonitor ==
  \/ \E user_id \in MonitorUsers, guild_id \in SourceGuilds \cup {MainServer},
        changed \in SUBSET {R1, R2}, is_bot \in BOOLEAN :
       on_member_update(user_id, guild_id, changed, is_bot)
  \/ DrainScan
  \/ \E outcome \in {"success", "failed", "raised"} : DrainDispatch(outcome)
  \/ Tick

\* one sync_all_users call over the members of the target community
NextSweep ==
  \/ \E found \in BOOLEAN, bots \in SUBSET GuildMembers : SweepStart(found, bots)
  \/ \E outcome \in {"success", "failed", "raised"}, ops \in BatchOpsPerSync,
        changed \in BOOLEAN, db_ok \in BOOLEAN :
       SweepSync(outcome, ops, changed, db_ok)
  \/ \E db_ok \in BOOLEAN : SweepFinal(db_ok)

SpecSweep == InitMonitorSpec /\ [][NextSweep]_vars

\* what the bot can manage on the target community during an overlap
ManageableChoices == {MainRoles, MainRoles \ {T2}}

\* a sync_user_roles call of the drain whose queries, role mutations and
\* writes all succeed
AnsweredSyncStep ==
  \/ StartSync(TRUE, TRUE)
  \/ FetchTarget("ok", TRUE)
  \/ FetchSources([g \in SourceGuilds |-> "ok"], TRUE)
  \/ \E manageable \in ManageableChoices : Diff(manageable, TRUE)
  \/ ApplyAdd("ok", {}, TRUE)
  \/ ApplyRemove("ok", TRUE)
  \/ Record("none")
  \/ RecordSession(TRUE)

\* the index of the mappings (GuildA, R1) -> T1 and (GuildB, R2) -> T2
InitOverlap ==
  /\ source_state = [g \in SourceGuilds |-> NotMember]
  /\ main_roles = {}
  /\ InitMapper({1, 2})
  /\ InitSync
  /\ InitMonitor

\* a sync_user_roles call of the drain and the sync_user_roles call of a
\* sweep for the same subject, in every interleaving of their steps; nobody
\* else changes the subject's roles on the target community once the sweep
\* has begun
NextOverlap ==
  \/ AnsweredSyncStep
  \/ \E chunk_ok \in [SourceGuilds -> BOOLEAN] : SweepPrefetch(chunk_ok)
  \/ \E manageable \in ManageableChoices : CachedDiff(manageable)
  \/ CachedAdd("ok", {})
  \/ CachedRemove("ok")
  \/ \E g \in SourceGuilds, st \in UNION {SourceStates(h) : h \in SourceGuilds} :
       MemberObjectChange(g, st)
  \/ \E role_id \in MainRoles : sweep.call.pc = "idle" /\ ChangeMainRoles(role_id)

SpecOverlap == InitOverlap /\ [][NextOverlap]_vars

SpecMonitor == InitMonitorSpec /\ [][NextMonitor]_vars

\* the subject whose role changes the drain task is followed with
TaskUser == CHOOSE u \in MonitorUsers : TRUE

\* the drain task started, stopped and restarted while changes arrive and
\* drain runs are under way, under both values of sync.auto_sync_enabled
InitTask ==
  /\ source_state = [g \in SourceGuilds |-> NotMember]
  /\ main_roles = {}
  /\ InitMapper(MappingIds)
  /\ InitSync
  /\ \E enabled \in BOOLEAN : InitMonitorWith(enabled)

NextTask ==
  \/ \E is_bot \in BOOLEAN : on_member_update(TaskUser, GuildA, {R1}, is_bot)
  \/ DrainScan
  \/ DispatchStart
  \/ \E outcome \in {"success", "failed", "raised"} : DispatchEnd(outcome)
  \/ CancelDelivered
  \/ RoleMonitorCog_toggle_autosync
  \/ AdminCommandsCog_toggle_autosync
  \/ cog_unload
  \/ Tick

SpecTask == InitTask /\ [][NextTask]_vars

\* the drain task stopped and started by the admin command while changes of
\* two subjects arrive and drain runs are under way
NextQueue ==
  \/ \E user_id \in MonitorUsers : on_member_update(user_id, GuildA, {R1}, FALSE)
  \/ DrainScan
  \/ DispatchStart
  \/ \E outcome \in {"success", "failed", "raised"} : DispatchEnd(outcome)
  \/ CancelDelivered
  \/ AdminCommandsCog_toggle_autosync
  \/ Tick

SpecQueue == InitMonitorSpec /\ [][NextQueue]_vars

\* the event filter alone, under every mapping index and both values of
\* sync.auto_sync_enabled
InitFilter ==
  /\ source_state = [g \in SourceGuilds |-> NotMember]
  /\ main_roles = {}
  /\ \E enabled_ids \in SUBSET MappingIds : InitMapper(enabled_ids)
  /\ InitSync
  /\ \E enabled \in BOOLEAN : InitMonitorWith(enabled)

NextFilter ==
  \/ \E user_id \in MonitorUsers, guild_id \in SourceGuilds \cup {MainServer},
        changed \in SUBSET {R1, R2, T1}, is_bot \in BOOLEAN :
       on_member_update_event(user_id, guild_id, changed, is_bot)
  \/ Tick

SpecFilter == InitFilter /\ [][NextFilter]_vars

\* the loop keeps running every 2 seconds and every awaited call ends, so a
\* due scan, a started dispatch and the clock all eventually move
SpecMonitorFair ==
  /\ SpecMonitor
  /\ WF_vars(Tick)
  /\ WF_vars(DrainScan)
  /\ WF_vars(\E outcome \in {"success", "failed", "raised"} : DrainDispatch(outcome))

\* administration of the mappings interleaved with reconciliations of a
\* subject who holds R1 on GuildA and T1 on the target community
InitAdmin ==
  /\ source_state \in {[g \in SourceGuilds |->
                          IF g = GuildA THEN MemberWith({R1}) ELSE st] :
                       st \in {NotMember, MemberWith({R2})}}
  /\ main_roles = {T1}
  /\ InitMapper(MappingIds)
  /\ InitSync
  /\ InitMonitor

NextAdmin ==
  \/ SyncStep
  \/ \E mapping_id \in MappingIds \cup {UnknownMapping}, enabled \in BOOLEAN,
        fail \in {"none", "save", "db"} : update_mapping(mapping_id, enabled, fail)
  \/ \E fail \in {"none", "config", "clear", "cache", "load"}, k \in 1..Cardinality(MappingIds) :
       reload_mappings(fail, k)
  \/ \E mapping_id \in MappingIds : EditMappingsFile(mapping_id)

SpecAdmin == InitAdmin /\ [][NextAdmin]_vars

\* a mappings file holding the mappings present_ids, in id order
FileOf(present_ids, enabled_ids) ==
  LET ids == SortedSeq(present_ids)
  IN [i \in 1..Len(ids) |-> RoleMapping(ids[i], ids[i] \in enabled_ids)]

\* the mapping store at start for a given mappings file
InitStore(mappings) ==
  /\ mappings_file = mappings
  /\ role_mappings = mappings
  /\ db_mappings = StartupTable(mappings)
  /\ mapping_cache = load_mappings(StartupTable(mappings))
  /\ cog_cache = cog_load(StartupTable(mappings))
  /\ admin_result = AdminResult("none", UnknownMapping, FALSE, "none")
  /\ admin_calls = 0
  /\ InitReload(mappings)

InitEnvIdle ==
  /\ source_state = [g \in SourceGuilds |-> NotMember]
  /\ main_roles = {}
  /\ InitSync
  /\ InitMonitor

\* the administrative calls add_mapping, remove_mapping and update_mapping
\* on a store started from any mappings file of the catalogue
InitMapperSpec ==
  /\ \E present_ids \in SUBSET MappingIds, enabled_ids \in SUBSET MappingIds :
       /\ enabled_ids \subseteq present_ids
       /\ InitStore(FileOf(present_ids, enabled_ids))
  /\ InitEnvIdle

NextMapper ==
  \/ \E mapping_id \in MappingIds, enabled \in BOOLEAN,
        fail \in {"none", "save", "db"} : add_mapping(mapping_id, enabled, fail)
  \/ \E mapping_id \in MappingIds \cup {UnknownMapping},
        fail \in {"none", "save", "db"} : remove_mapping(mapping_id, fail)
  \/ \E mapping_id \in MappingIds \cup {UnknownMapping}, enabled \in BOOLEAN,
        fail \in {"none", "save", "db"} : update_mapping(mapping_id, enabled, fail)

SpecMapper == InitMapperSpec /\ [][NextMapper]_vars

\* overlapping reload_mappings calls and edits of the mappings file
InitLoadSpec ==
  /\ \E enabled_ids \in SUBSET MappingIds : InitStore(FileWith(enabled_ids))
  /\ InitEnvIdle

NextLoad ==
  \/ \E p \in ReloadCalls, ok \in BOOLEAN : ReloadConfig(p, ok)
  \/ \E p \in ReloadCalls, ok \in BOOLEAN : ReloadClear(p, ok)
  \/ \E p \in ReloadCalls, ok \in BOOLEAN : ReloadCache(p, ok)
  \/ \E p \in ReloadCalls, ok \in BOOLEAN : ReloadLoad(p, ok)
  \/ \E mapping_id \in MappingIds : EditMappingsFile(mapping_id)

SpecLoad == InitLoadSpec /\ [][NextLoad]_vars

(***************************************************************************)
(* Properties of one reconciliation (specification Spec).                  *)
(***************************************************************************)
Done == pc = "done"

\* some source query of this call failed
FetchErrorOccurred == \E g \in SourceGuilds : loc.fetch_results[g] = "Exception"

\* every source query of this call was made and answered without error
AllSourcesAnswered ==
  \A g \in SourceGuilds : loc.fetch_results[g] \in {"Member", "None"}

\* role_id is the target of some mapping in the index
IsMappingTarget(role_id) ==
  \E key \in DOMAIN mapping_cache : mapping_cache[key] = role_id

\* roles handed to a remove call of this reconciliation
RemoveCallRoles ==
  UNION {api_calls[i].roles : i \in {j \in DOMAIN api_calls : api_calls[j].op = "remove"}}

\* roles handed to an add call of this reconciliation
AddCallRoles ==
  UNION {api_calls[i].roles : i \in {j \in DOMAIN api_calls : api_calls[j].op = "add"}}

\* roles whose add call succeeded
AddedOnTarget ==
  UNION {api_calls[i].roles :
           i \in {j \in DOMAIN api_calls : api_calls[j].op = "add" /\ api_calls[j].ok}}

\* C1: every role passed to the remove call, and every id in roles_removed,
\* is held by the subject on the target, is outside the computed target set
\* and is the target of some mapping of the index; so a role that no mapping
\* targets is never removed.
C1_RemoveOnlyMappedRoles ==
  \A role_id \in RemoveCallRoles \cup result.roles_removed :
    /\ role_id \in loc.current_role_ids
    /\ role_id \notin loc.target_role_ids
    /\ IsMappingTarget(role_id)

\* a reconciliation that reached the diff for a subject holding the
\* unmapped role T9 has returned, and T9 is still held
C1_Witness ==
  /\ Done
  /\ loc.mutual_guilds # {}
  /\ T9 \in loc.current_role_ids
  /\ ~IsMappingTarget(T9)
  /\ T9 \in main_roles
  /\ T9 \notin result.roles_removed

\* C2: no role id is both in roles_added and in roles_failed.
C2_AddedFailedDisjoint == result.roles_added \cap result.roles_failed = {}

\* the per-role fallback ran: one role was added, another one failed
C2_Witness ==
  /\ Done
  /\ result.roles_added # {}
  /\ result.roles_failed # {}
  /\ Len(api_calls) > 1

\* C3 as stated: on every return path success is true exactly when
\* roles_failed is empty and no source query failed.
C3_SuccessIffNoFailure ==
  Done => (result.success <=> (result.roles_failed = {} /\ ~FetchErrorOccurred))

\* C3 amended: success is true only if roles_failed is empty and no source
\* query failed; a result with success false lists a failed role or an error.
C3_SuccessImpliesNoFailure ==
  Done =>
    /\ result.success => (result.roles_failed = {} /\ ~FetchErrorOccurred)
    /\ ~result.success => (result.roles_failed # {} \/ result.errors # {})

\* a failed result without failed role and without fetch error
C3_Witness ==
  /\ Done
  /\ ~result.success
  /\ result.roles_failed = {}
  /\ ~FetchErrorOccurred
  /\ result.errors # {}

\* C4 as stated: the second of two calls in a row adds and removes nothing.
C4_SecondRunEmpty ==
  (Done /\ prev_success # NoValue) =>
    (result.roles_added = {} /\ result.roles_removed = {})

\* C4 amended: when the first of two calls in a row returned success, the
\* second one adds and removes nothing.
C4_SecondRunEmptyAfterSuccess ==
  (Done /\ prev_success = "True") =>
    (result.roles_added = {} /\ result.roles_removed = {})

\* a second call, after a successful one, for a subject who has target roles
C4_Witness ==
  /\ Done
  /\ prev_success = "True"
  /\ loc.target_role_ids # {}
  /\ loc.target_role_ids \subseteq loc.current_role_ids
  /\ result.success

\* the target roles the index gives for the roles the subject really holds
TrueTargetRoles ==
  get_all_target_roles(mapping_cache,
    UNION {{<<g, role_id>> : role_id \in source_state[g].roles} : g \in SourceGuilds})

\* the situation of the grant scenario
GrantScenario ==
  /\ get_target_role(mapping_cache, GuildA, R1) = T1
  /\ loc.main_member
  /\ source_state[GuildA] = MemberWith({R1})
  /\ TrueTargetRoles = {T1}
  /\ loc.current_role_ids = {}
  /\ T1 \in loc.manageable
  /\ \A i \in DOMAIN api_calls : api_calls[i].op = "add" => api_calls[i].ok

RevokeScenario ==
  /\ loc.main_member
  /\ T1 \in loc.current_role_ids
  /\ IsMappingTarget(T1)
  /\ T1 \notin TrueTargetRoles
  /\ AllSourcesAnswered
  /\ (T1 \in loc.manageable \/ loc.mutual_guilds = {})

\* C7: in the revoke scenario the call removes T1 and lists it in
\* roles_removed.
C7_RevokeScenario ==
  (Done /\ RevokeScenario) =>
    /\ T1 \in RemoveCallRoles
    /\ T1 \in result.roles_removed

\* no source query returned the member and at least one failed
TotalFetchFailure ==
  /\ \A g \in SourceGuilds : loc.fetch_results[g] # "Member"
  /\ \E g \in SourceGuilds : loc.fetch_results[g] = "Exception"

\* C8: after a total fetch failure no role mutation is issued, and the
\* call returns success false, nothing added, nothing removed, and every
\* fetch error in errors.
C8_TotalFetchFailure ==
  TotalFetchFailure =>
    /\ api_calls = <<>>
    /\ Done =>
         /\ ~result.success
         /\ result.roles_added = {}
         /\ result.roles_removed = {}
         /\ \A g \in SourceGuilds :
              loc.fetch_results[g] = "Exception" => Err("fetch", g) \in result.errors

\* a call for a subject with target roles returned after a total failure
C8_Witness ==
  /\ Done
  /\ TotalFetchFailure
  /\ main_roles # {}
  /\ \E g \in SourceGuilds : source_state[g].roles # {}

PastAdd == pc \in {"apply_remove", "record", "record_session", "done"}

\* the call is past the remove part of apply_role_changes
PastRemove == pc \in {"record", "record_session", "done"}

\* the bulk call of the given kind for exactly these roles was issued
Issued(op, roles) ==
  \E i \in DOMAIN api_calls : api_calls[i].op = op /\ api_calls[i].roles = roles

\* what the accepted calls of this reconciliation changed is still in place
NothingUndone ==
  \A i \in DOMAIN api_calls :
    api_calls[i].ok =>
      IF api_calls[i].op = "add" THEN api_calls[i].roles \subseteq main_roles
      ELSE api_calls[i].roles \cap main_roles = {}

SessionRecords == {row \in db_log : row[1] = "record_sync_session"}

\* C23: every call of sync_user_roles records exactly one session record of
\* its result, on every return path.
C23_OneSessionRecord == Done => Cardinality(SessionRecords) = 1

\* the steps of one call in their order, and the returns that leave it early
StepOrder ==
  { <<"idle", "fetch_target">>, <<"done", "fetch_target">>,
    <<"idle", "done">>, <<"done", "done">>,
    <<"fetch_target", "fetch_sources">>, <<"fetch_target", "record_session">>,
    <<"fetch_sources", "diff">>, <<"fetch_sources", "done">>,
    <<"diff", "apply_add">>, <<"diff", "record_session">>,
    <<"apply_add", "apply_remove">>, <<"apply_add", "record_session">>,
    <<"apply_remove", "record">>, <<"apply_remove", "record_session">>,
    <<"record", "record_session">>, <<"record_session", "done">>,
    <<"done", "idle">> }

\* no source query of this call has been made
NoSourceQuery == \A g \in SourceGuilds : loc.fetch_results[g] = "unset"

\* every source query of this call has returned
AllSourcesReturned == \A g \in SourceGuilds : loc.fetch_results[g] # "unset"

\* C28: a sync_user_roles call goes through FetchTarget, FetchSources,
\* ComputeTarget and Diff, Apply, Record in this order; when the subject is
\* absent from the target community no source query and no role mutation is
\* issued; no role mutation is issued before every source query of the call
\* has returned; and no remove call is issued before an add call.
C28_StepOrder ==
  /\ [][pc' # pc => <<pc, pc'>> \in StepOrder]_vars
  /\ [](Err("user_not_found", 0) \in result.errors =>
          NoSourceQuery /\ api_calls = <<>>)
  /\ [](pc \in {"fetch_target", "fetch_sources"} => api_calls = <<>>)
  /\ [](api_calls # <<>> => AllSourcesReturned)
  /\ [](\A i, j \in DOMAIN api_calls :
          (api_calls[i].op = "remove" /\ api_calls[j].op = "add") => j < i)

\* a call went through every step: both source queries returned, one of
\* them with an error, then T1 was added, then the result was recorded
C28_Witness ==
  /\ Done
  /\ AllSourcesReturned
  /\ FetchErrorOccurred
  /\ Issued("add", {T1})
  /\ Row("sync_failed", 0) \in db_log
  /\ Row("update_statistics", 0) \in db_log

\* C31: when a call has returned, roles_added is exactly the set of roles
\* for which an add call succeeded on the target community during the call,
\* also when a later audit or assignment write for such a role failed.
C31_RolesAddedAreTheSucceededAdds == Done => result.roles_added = AddedOnTarget

\* the subject qualifies for the manageable role T1, does not hold it, and
\* holds on the target community a role outside the computed target set
UnrelatedRoleScenario ==
  /\ loc.main_member
  /\ AllSourcesAnswered
  /\ T1 \in loc.target_role_ids
  /\ T1 \in loc.manageable
  /\ T1 \notin loc.current_role_ids
  /\ loc.current_role_ids \ loc.target_role_ids # {}

\* C35: in that situation the call still issues the add of T1, returns T1
\* in roles_added and does not end in its exception handler.
C35_AddIgnoresUnrelatedRoles ==
  (Done /\ UnrelatedRoleScenario) =>
    /\ T1 \in AddCallRoles
    /\ T1 \in result.roles_added
    /\ Err("exception", 0) \notin result.errors

(***************************************************************************)
(* Properties of the sweep (specification SpecSweep).                      *)
(***************************************************************************)
\* the sweep has returned its stats after going through the member list
SweepReturned == sweep.pc = "done" /\ sweep.stats.error = 0

\* C24: in sync_all_users a failed flush of the batch buffer is counted in
\* db_errors and does not abort the sweep: every member that is not a bot
\* has been reconciled exactly once, no bot has, the returned stats carry
\* db_errors equal to the number of failed flushes, and no applied role
\* mutation is taken back.
C24_FlushFailureDoesNotAbort ==
  /\ []((SweepReturned /\ sweep.failed_flushes > 0) =>
          /\ \A m \in GuildMembers :
               sweep.calls[m] = IF m \in Range(sweep.members) THEN 1 ELSE 0
          /\ sweep.stats.processed = sweep.stats.total
          /\ sweep.stats.db_errors = sweep.failed_flushes)
  /\ [][sweep.applied \subseteq sweep'.applied]_vars

\* the periodic flush failed in the middle of the sweep and the final flush
\* failed too; all three members were reconciled, one with role changes
C24_Witness ==
  /\ SweepReturned
  /\ sweep.failed_flushes = 2
  /\ sweep.stats.db_errors = 2
  /\ sweep.stats.total = 3
  /\ \A m \in GuildMembers : sweep.calls[m] = 1
  /\ sweep.applied # {}

\* the sweep found the target community and is in or past its loop
InSweep == sweep.pc \in {"loop", "final", "done"} /\ sweep.stats.error = 0

\* C38: in sync_all_users, after each processed member and at the end,
\* success + failed = processed and no_changes <= processed; the processed
\* members are the first ones of the member list, each reconciled once; at
\* the end processed = total = the number of members that are not bots.
C38_StatsAddUp ==
  InSweep =>
    /\ sweep.stats.success + sweep.stats.failed = sweep.stats.processed
    /\ sweep.stats.no_changes <= sweep.stats.processed
    /\ \A k \in DOMAIN sweep.members :
         sweep.calls[sweep.members[k]] = IF k <= sweep.stats.processed THEN 1 ELSE 0
    /\ sweep.stats.total = Len(sweep.members)
    /\ sweep.stats.total + sweep.stats.skipped = Cardinality(GuildMembers)
    /\ sweep.pc \in {"final", "done"} => sweep.stats.processed = sweep.stats.total

\* a sweep over three members returned: one call succeeded, one returned a
\* failure, one raised
C38_Witness ==
  /\ SweepReturned
  /\ sweep.stats.total = 3
  /\ sweep.stats.processed = 3
  /\ sweep.stats.success = 1
  /\ sweep.stats.failed = 2
  /\ sweep.stats.no_changes = 1

(***************************************************************************)
(* Properties of a sweep call and a drain call for the same subject        *)
(* (specification SpecOverlap).                                            *)
(***************************************************************************)
\* the live call has its add set and its remove set, or has returned early
LiveComputed ==
  /\ loc.main_member
  /\ AllSourcesAnswered
  /\ pc \in {"apply_add", "apply_remove", "record", "record_session", "done"}

\* the call of the sweep has its add set and its remove set, or has returned
CachedComputed == sweep.call.pc \in {"cached_add", "cached_remove", "returned"}

\* both calls worked on the same source state (the source state does not
\* change while the live call is under way), the same roles of the subject
\* on the target community and the same manageable roles
SameInputs ==
  /\ sweep.call.seen = source_state
  /\ loc.current_role_ids = sweep.call.loc.current_role_ids
  /\ loc.manageable = sweep.call.loc.manageable

UnfetchedTargets ==
  {mapping_cache[key] : key \in {k \in DOMAIN mapping_cache : k[1] \in sweep.chunk_failed}}

BothFinished ==
  /\ sweep.call.overlap
  /\ Done
  /\ loc.main_member
  /\ AllSourcesAnswered
  /\ sweep.call.pc = "returned"
  /\ sweep.chunk_failed = {}
  /\ loc.mutual_guilds # {} => loc.manageable = MainRoles
  /\ sweep.call.loc.manageable = MainRoles

\* C37: when a sweep and a drain call for the same subject overlap, all
\* mutations succeed and the source roles do not change after both have
\* finished, the subject's mapped roles on the target community equal the
\* target set of the subject's current source roles.
C37_OverlapConverges ==
  BothFinished =>
    {role_id \in main_roles : IsMappingTarget(role_id)} = TrueTargetRoles

(***************************************************************************)
(* Properties of the debounce queue (specification SpecMonitorFair).       *)
(***************************************************************************)
\* since the burst began the drain took the subject from the queue at most
\* once, and only debounce_delay or more after the burst's last change
DebouncedOnce(user_id) ==
  /\ Len(dispatched[user_id]) <= 1
  /\ \A i \in DOMAIN dispatched[user_id] :
       dispatched[user_id][i] - last_change[user_id].last >= debounce_delay
  /\ call_count[user_id] <= scan_count[user_id]

\* the subject's burst has had its one sync_user_roles call
DispatchedOnce(user_id) ==
  /\ Len(dispatched[user_id]) = 1
  /\ call_count[user_id] = scan_count[user_id]

\* C5: a burst of qualifying changes, each less than debounce_delay after
\* the previous one, gets exactly one dispatch from the drain loop, no
\* earlier than debounce_delay after the last change of the burst.
C5_Debounce ==
  /\ [](\A user_id \in MonitorUsers : DebouncedOnce(user_id))
  /\ \A user_id \in MonitorUsers :
       (user_id \in DOMAIN pending_syncs) ~> DispatchedOnce(user_id)

\* a burst of at least two changes was dispatched once, after the wait
\* counted from its last change
C5_Witness ==
  \E user_id \in MonitorUsers :
    /\ last_change[user_id].first >= 0
    /\ last_change[user_id].first < last_change[user_id].last
    /\ DispatchedOnce(user_id)
    /\ call_count[user_id] = 1
    /\ user_id \notin DOMAIN pending_syncs

(***************************************************************************)
(* Properties of the event filter (specification SpecFilter).              *)
(***************************************************************************)
\* the four conditions under which an event is to be enqueued
MustEnqueue(event) ==
  /\ auto_sync_enabled
  /\ ~event.is_bot
  /\ event.guild_id # MainServer
  /\ \E role_id \in event.changed :
       has_mapping(mapping_cache, event.guild_id, role_id)

\* C18: on_member_update puts the subject into pending_syncs, stamped with
\* the time of the event, exactly when auto-sync is enabled, the account is
\* not a bot, the guild of the change is not the target community and some
\* changed role has a mapping for that guild; otherwise, and so for every
\* role edit on the target community, pending_syncs stays as it was.
C18_EnqueueIffQualifying ==
  [][last_event' # last_event =>
       IF MustEnqueue(last_event')
       THEN pending_syncs' = Put(pending_syncs, last_event'.user_id, last_event'.at)
       ELSE pending_syncs' = pending_syncs]_vars

\* one subject is queued after a qualifying change, and the last event, a
\* change of a target role on the target community, queued nobody
C18_Witness ==
  /\ last_event.guild_id = MainServer
  /\ last_event.changed = {T1}
  /\ ~last_event.is_bot
  /\ auto_sync_enabled
  /\ DOMAIN pending_syncs # {}
  /\ last_event.user_id \notin DOMAIN pending_syncs

(***************************************************************************)
(* Properties of one drain run (specifications SpecMonitor and             *)
(* SpecMonitorFair).                                                       *)
(***************************************************************************)
\* queue entries that are debounce_delay old or older
AgedEntries == {u \in DOMAIN pending_syncs : now - pending_syncs[u] >= debounce_delay}

\* the step is the scan of a drain run that found something to remove
ScanStep == scan_count' # scan_count

\* the scan removes exactly the aged entries, lists each of them once for
\* dispatch and leaves the other entries as they are; every removed subject's
\* last qualifying change is debounce_delay old or older
ScanTakesAgedEntries ==
  /\ DOMAIN pending_syncs' = (DOMAIN pending_syncs) \ AgedEntries
  /\ \A u \in DOMAIN pending_syncs' : pending_syncs'[u] = pending_syncs[u]
  /\ Range(users_to_sync') = AgedEntries
  /\ Len(users_to_sync') = Cardinality(AgedEntries)
  /\ \A u \in AgedEntries :
       /\ scan_count'[u] = scan_count[u] + 1
       /\ now - last_change[u].last >= debounce_delay
  /\ \A u \in MonitorUsers \ AgedEntries : scan_count'[u] = scan_count[u]

\* sync_user_roles is called for the subject only from the list of the
\* run, one call per listed subject
OneCallPerRemoval(u) ==
  /\ call_count'[u] # call_count[u] =>
       /\ users_to_sync # <<>>
       /\ u = Head(users_to_sync)
       /\ call_count'[u] = call_count[u] + 1
       /\ u \notin Range(users_to_sync')
  /\ call_count'[u] <= scan_count'[u]
  /\ drain_pc' = "idle" => call_count'[u] = scan_count'[u]

\* C19: a drain run removes from pending_syncs exactly the entries that are
\* debounce_delay old or older, calls sync_user_roles exactly once for each
\* removed subject and leaves every younger entry with its timestamp; no
\* subject is removed while its last qualifying change is younger than
\* debounce_delay at the scan.
C19_DrainTakesDueEntries ==
  [][/\ ScanStep => ScanTakesAgedEntries
     /\ ~ScanStep => \A u \in DOMAIN pending_syncs :
                       u \in DOMAIN pending_syncs' /\ pending_syncs'[u] >= pending_syncs[u]
     /\ \A u \in MonitorUsers : OneCallPerRemoval(u)]_vars

\* a run removed and dispatched one subject while the other subject, queued
\* less than debounce_delay before the scan, stayed in the queue
C19_Witness ==
  \E u, v \in MonitorUsers :
    /\ u # v
    /\ drain_pc = "idle"
    /\ scan_count[u] = 1 /\ call_count[u] = 1
    /\ u \notin DOMAIN pending_syncs
    /\ scan_count[v] = 0
    /\ v \in DOMAIN pending_syncs
    /\ dispatched[u] # <<>>
    /\ pending_syncs[v] < dispatched[u][1]
    /\ dispatched[u][1] - pending_syncs[v] < debounce_delay

\* every subject the drain removed has had its call or is still listed in
\* the running drain run
RemovedIsDispatchedOrListed(u) ==
  scan_count[u] - call_count[u] = IF u \in Range(users_to_sync) THEN 1 ELSE 0

\* C20: within one drain run an exception from sync_user_roles, or a failed
\* result, for one subject does not stop the dispatch of the other subjects
\* of the run: every subject removed from the queue gets its call.
C20_FailureDoesNotBlockOthers ==
  /\ [](\A u \in MonitorUsers : RemovedIsDispatchedOrListed(u))
  /\ \A u \in MonitorUsers :
       (scan_count[u] > call_count[u]) ~> (scan_count[u] = call_count[u])

\* a run of two subjects is over: the first call raised or returned a
\* failed result, and the second subject was dispatched after it
C20_Witness ==
  /\ drain_pc = "idle"
  /\ Len(dispatch_log) = 2
  /\ dispatch_log[1][2] \in {"raised", "failed"}
  /\ dispatch_log[1][1] # dispatch_log[2][1]
  /\ \A u \in MonitorUsers : scan_count[u] = 1 /\ call_count[u] = 1

\* the subject's queue entry is new or has a new timestamp after the step
Enqueued(u) ==
  /\ u \in DOMAIN pending_syncs'
  /\ u \in DOMAIN pending_syncs => pending_syncs'[u] # pending_syncs[u]

\* the step is a qualifying change event of the subject
QualifyingEvent(u) ==
  \E guild_id \in SourceGuilds \cup {MainServer}, changed \in SUBSET {R1, R2},
     is_bot \in BOOLEAN :
    /\ Qualifies(mapping_cache, guild_id, changed, is_bot)
    /\ on_member_update(u, guild_id, changed, is_bot)

\* C27: a subject enters pending_syncs only through a qualifying change
\* event; a dispatch, whatever its outcome, puts nobody back into the queue;
\* and the drain removes a subject for dispatch only if a qualifying change
\* event of the subject arrived since the drain last removed it.
C27_OnlyEventsEnqueue ==
  [][\A u \in MonitorUsers :
       /\ Enqueued(u) => QualifyingEvent(u)
       /\ call_count'[u] # call_count[u] => pending_syncs' = pending_syncs
       /\ scan_count'[u] # scan_count[u] => dispatched[u] = <<>>]_vars

\* the one call for the subject failed or raised; debounce_delay later the
\* subject is not in the queue and has not been dispatched again
C27_Witness ==
  \E u \in MonitorUsers :
    /\ drain_pc = "idle"
    /\ dispatch_log # <<>>
    /\ dispatch_log[Len(dispatch_log)][1] = u
    /\ dispatch_log[Len(dispatch_log)][2] \in {"failed", "raised"}
    /\ call_count[u] = 1 /\ scan_count[u] = 1
    /\ dispatched[u] # <<>>
    /\ now - dispatched[u][1] >= debounce_delay
    /\ u \notin DOMAIN pending_syncs

(***************************************************************************)
(* Properties of the drain task (specification SpecTask).                  *)
(***************************************************************************)
\* C21: at most one sync_user_roles(trigger auto) call of a subject is
\* executing at any time, and a call starts only for the subject at the head
\* of the list the scan filled when it removed the subject from
\* pending_syncs, while no earlier call for the subject is executing; this
\* holds for every interleaving of change events, drain runs and stops and
\* starts of the drain task.
C21_OneAutoSyncInFlight ==
  /\ [](\A u \in MonitorUsers : running_syncs[u] <= 1)
  /\ [][\A u \in MonitorUsers :
          call_count'[u] # call_count[u] =>
            /\ users_to_sync # <<>> /\ u = Head(users_to_sync)
            /\ scan_count[u] > 0
            /\ running_syncs[u] = 0
            /\ running_syncs'[u] = 1]_vars

\* after the admin command stopped the task during a call for the subject
\* and the task was started again, a new call for the subject is executing
C21_Witness ==
  \E u \in MonitorUsers :
    /\ running_syncs[u] = 1
    /\ u \in interrupted
    /\ call_count[u] = 2
    /\ last_toggle.cog # "none"

\* C25: stopping the drain task (cog_unload or a toggle_autosync command)
\* only prevents new drain runs; no executing sync_user_roles call is ended
\* by the stop.
C25_InFlightRunsToCompletion == interrupted = {}

\* C29: a toggle_autosync command of either cog, invoked while the drain
\* task is running, stops it, and invoked while the task is stopped, starts
\* it.
C29_ToggleAlternates ==
  (cog_loaded /\ last_toggle.cog # "none" /\ ~last_toggle.was_stopping) =>
    Running = ~last_toggle.was_running

\* C36: no queued reconciliation is lost: a subject that a drain run has
\* removed from pending_syncs gets its sync_user_roles(trigger auto) call;
\* until the call has started the subject is still listed for dispatch by
\* that run, also when the drain task is cancelled or a call of the run
\* fails between the removal and the dispatch.
C36_NoQueuedSyncLost ==
  \A u \in MonitorUsers :
    scan_count[u] > call_count[u] => u \in Range(users_to_sync)

(***************************************************************************)
(* Properties of the mapping administration (specification SpecAdmin).     *)
(***************************************************************************)
\* the last administrative call disabled mapping 1, (GuildA, R1) -> T1:
\* update_mapping(1, enabled=False) returned True, or reload_mappings
\* returned after reading the mapping as disabled
MappingDisabled ==
  \/ admin_result = AdminResult("update_mapping", 1, FALSE, "True")
  \/ /\ admin_result = AdminResult("reload_mappings", UnknownMapping, FALSE, "None")
     /\ \E i \in DOMAIN role_mappings :
          role_mappings[i].id = 1 /\ ~role_mappings[i].enabled

\* the subject holds T1, held R1 for it, and no enabled mapping gives T1 now
QualifiedOnlyThroughDisabled ==
  /\ loc.main_member
  /\ T1 \in loc.current_role_ids
  /\ R1 \in source_state[GuildA].roles
  /\ T1 \notin TrueTargetRoles
  /\ AllSourcesAnswered
  /\ T1 \in loc.manageable

\* C9: once mapping (GuildA, R1) -> T1 is disabled, get_target_role(A, R1)
\* returns no role, has_mapping(A, R1) is false, and the next
\* reconciliation of a subject who qualified for T1 only through that
\* mapping removes T1 and lists it in roles_removed.
C9_DisabledMapping ==
  MappingDisabled =>
    /\ get_target_role(mapping_cache, GuildA, R1) = NoRole
    /\ ~has_mapping(mapping_cache, GuildA, R1)
    /\ (Done /\ QualifiedOnlyThroughDisabled) =>
         /\ T1 \in RemoveCallRoles
         /\ T1 \in result.roles_removed

(***************************************************************************)
(* Properties of the mapping store (specifications SpecMapper, SpecLoad).  *)
(***************************************************************************)
\* what a mapping list shows of a mapping id
ListShows(mappings, mapping_id) ==
  LET i == get_mapping_by_id(mappings, mapping_id)
  IN IF i = 0 THEN "absent"
     ELSE IF mappings[i].enabled THEN "enabled" ELSE "disabled"

\* the index holds the entry of the mapping
IndexShows(cache, mapping_id) ==
  get_target_role(cache, CatalogEntry(mapping_id).source_server_id,
                  CatalogEntry(mapping_id).source_role_id)
    = CatalogEntry(mapping_id).target_role_id

\* the step is the return or the raise of add_mapping, remove_mapping or
\* update_mapping
AdminCallEnds ==
  /\ admin_calls' = admin_calls + 1
  /\ admin_result'.op \in {"add_mapping", "remove_mapping", "update_mapping"}

StoreUnchanged ==
  /\ mappings_file' = mappings_file
  /\ role_mappings' = role_mappings
  /\ mapping_cache' = mapping_cache

\* C11: add_mapping, remove_mapping and update_mapping fail atomically: a
\* call that raises leaves the mapping list, its file and the index as they
\* were, and after a call that returns True the list, the file and the index
\* agree about the mapping.
C11_AtomicAdminCalls ==
  [][AdminCallEnds =>
       /\ admin_result'.status = "RoleMappingError" => StoreUnchanged
       /\ admin_result'.status = "True" =>
            /\ ListShows(mappings_file', admin_result'.id)
                 = ListShows(role_mappings', admin_result'.id)
            /\ IndexShows(mapping_cache', admin_result'.id)
                 <=> ListShows(role_mappings', admin_result'.id) = "enabled"]_vars

\* C12: add_mapping with an id already in the list is rejected with an
\* error, remove_mapping and update_mapping on an unknown id return False,
\* and in these cases the list, the file, the table and the index stay as
\* they were.
C12_RejectedCallChangesNothing ==
  [][AdminCallEnds =>
       LET known == get_mapping_by_id(role_mappings, admin_result'.id) # 0
       IN /\ (admin_result'.op = "add_mapping" /\ known) =>
               /\ admin_result'.status = "RoleMappingError: already exists"
               /\ StoreUnchanged
               /\ db_mappings' = db_mappings
          /\ (admin_result'.op \in {"remove_mapping", "update_mapping"} /\ ~known) =>
               /\ admin_result'.status = "False"
               /\ StoreUnchanged
               /\ db_mappings' = db_mappings]_vars

\* a duplicate add was rejected after an earlier call had changed the store
C12_Witness ==
  /\ admin_calls = 2
  /\ admin_result.op = "add_mapping"
  /\ admin_result.status = "RoleMappingError: already exists"
  /\ ListShows(role_mappings, admin_result.id) = "disabled"
  /\ mapping_cache # EmptyMap

\* the index built from a mapping list
IndexOf(mappings) == load_mappings(CacheRows({}, mappings, Len(mappings)))

\* C13: at every suspension point of load_mappings and reload_mappings, and
\* after a failed load, the index is the complete index of a mapping list
\* that was loaded, never an empty or partly filled one.
C13_IndexAlwaysComplete ==
  mapping_cache \in {IndexOf(mappings) : mappings \in loaded_lists}

\* C26: after any sequence of add_mapping, remove_mapping and update_mapping
\* calls the index equals the index load_mappings would build at that
\* moment from the stored mappings: one entry per (source guild, source
\* role) pair of the enabled mappings, the last loaded winning, also when
\* two mappings share a pair and one of them is removed or disabled.
C26_IndexEqualsRebuild == mapping_cache = load_mappings(db_mappings)

\* the (source community, source role) pairs a consumer can ask about
SourcePairs == {<<g, GuildRole(g)>> : g \in SourceGuilds}

\* C34: after an administrative mapping call has returned successfully the
\* RoleMapper of every cog resolves each (source community, source role)
\* pair to the same target role, and has_mapping gives the same answer, as
\* the RoleMapper the call was made on.
C34_EveryConsumerSeesNewMappings ==
  admin_result.status \in {"True", "None"} =>
    \A cog \in ConsumerCogs, p \in SourcePairs :
      /\ get_target_role(cog_cache[cog], p[1], p[2]) =
           get_target_role(mapping_cache, p[1], p[2])
      /\ has_mapping(cog_cache[cog], p[1], p[2]) = has_mapping(mapping_cache, p[1], p[2])

(***************************************************************************)
(* Further properties of one reconciliation (specification Spec).          *)
(***************************************************************************)
\* some source query returned the member and another one failed
PartialFetchFailure ==
  /\ \E g \in SourceGuilds : loc.fetch_results[g] = "Member"
  /\ \E g \in SourceGuilds : loc.fetch_results[g] = "Exception"

\* the target set of the source data that arrived
ArrivedTargetRoles == calculate_target_roles(mapping_cache, loc.user_roles_map)

\* C14: after a partial fetch failure the call does not abort: the target
\* set is computed from the data that arrived, every manageable role of it
\* that the subject lacks is handed to an add call, every fetch failure is in
\* errors, and success is false.
C14_PartialFetchFailure ==
  (Done /\ PartialFetchFailure) =>
    /\ ~result.success
    /\ \A g \in SourceGuilds :
         loc.fetch_results[g] = "Exception" => Err("fetch", g) \in result.errors
    /\ loc.target_role_ids = ArrivedTargetRoles
    /\ \A role_id \in (ArrivedTargetRoles \ loc.current_role_ids) \cap loc.manageable :
         role_id \in AddCallRoles

\* the bulk add call was rejected and the per-role calls followed
FallbackRan ==
  /\ Len(api_calls) >= 2
  /\ api_calls[1] = AddCall(loc.roles_to_add, FALSE)
  /\ api_calls[2].op = "add"

\* the per-role add calls made for role_id
SingleAddCalls(role_id) ==
  {i \in DOMAIN api_calls : i >= 2 /\ api_calls[i].op = "add" /\ api_calls[i].roles = {role_id}}

\* C15: after a rejected bulk add every role of the add set gets exactly
\* one call of its own, also after another role's call failed, and is in
\* actually_added when its call succeeded and in failed_to_add when it
\* failed, never in both and never in neither.
C15_FallbackPerRole ==
  FallbackRan =>
    /\ \A role_id \in loc.roles_to_add :
         /\ Cardinality(SingleAddCalls(role_id)) = 1
         /\ \A i \in SingleAddCalls(role_id) :
              /\ api_calls[i].ok <=> role_id \in loc.actually_added
              /\ ~api_calls[i].ok <=> role_id \in loc.failed_to_add
    /\ loc.actually_added \cap loc.failed_to_add = {}
    /\ loc.actually_added \cup loc.failed_to_add = loc.roles_to_add

\* the call for T1 failed and the call for T2, made after it, succeeded
C15_Witness ==
  /\ FallbackRan
  /\ loc.roles_to_add = {T1, T2}
  /\ api_calls[2] = AddCall({T1}, FALSE)
  /\ api_calls[3] = AddCall({T2}, TRUE)
  /\ loc.actually_added = {T2}
  /\ loc.failed_to_add = {T1}

\* roles of the computed add set that the manageability check rejects
UnmanageableAddRoles ==
  (loc.target_role_ids \ loc.current_role_ids) \ loc.manageable

\* C16: every role of the add set that the manageability check rejects is
\* in roles_failed of the returned result and is never handed to an add
\* call, and no unmanageable role is handed to a remove call.
C16_UnmanageableRolesFail ==
  /\ AddCallRoles \cap UnmanageableAddRoles = {}
  /\ pc \notin {"idle", "fetch_target", "fetch_sources", "diff"} =>
       RemoveCallRoles \subseteq loc.manageable
  /\ Done => UnmanageableAddRoles \subseteq result.roles_failed

\* a held role is outside the target set, is a mapping target and is
\* manageable, so the diff owes its removal
RemovalDue ==
  \E role_id \in loc.current_role_ids \ ArrivedTargetRoles :
    IsMappingTarget(role_id) /\ role_id \in loc.manageable

\* C17: when a removal is due, no source query failed and no add role
\* failed or is unmanageable, success is true whatever the remove call
\* answers.
C17_RemoveFailureKeepsSuccess ==
  (/\ Done
   /\ loc.main_member
   /\ AllSourcesAnswered
   /\ RemovalDue
   /\ UnmanageableAddRoles = {}
   /\ \A i \in DOMAIN api_calls : api_calls[i].op = "add" => api_calls[i].ok)
    => result.success

====
